---- MODULE Spec2Model ----
(* State-machine model of the streaming adapters of go-zfs' ioctl package:    *)
(* Send (sendStream.Read / peek / Close and the producer goroutine) and       *)
(* Receive (ReceiveStream.Write / WaitAndClose and the consumer goroutine).   *)
(* The kernel side of the two control calls is the environment: it writes or  *)
(* reads pipe bytes and returns a final status.                               *)
EXTENDS Integers, Sequences, FiniteSets, TLC

----------------------------------------------------------------------------
(* Bounds of the model *)

\* most stream bytes the kernel produces in one send
MaxStream == 3
\* capacity of the OS pipe (65536 on Linux; any positive value gives the same blocking rules)
PipeCap == 2
\* largest buffer the caller passes to Read
MaxBuf == 2

----------------------------------------------------------------------------
(* Values *)

\* make(chan error, 1), in Send and in Receive
ErrorChanCap == 1

Nil == "nil"
EOF == "io.EOF"
ErrClosed == "os.ErrClosed"
EPIPE == "EPIPE"
ENOENT == "ENOENT"
EIO == "EIO"
ENOMEM == "ENOMEM"
EMFILE == "EMFILE"
EINVAL == "EINVAL"
ErrInvalidData == "this nvlist contains invalid data"
ErrInvalidValue == "the value provided to unmarshal contains invalid types"
ErrUnsupportedType == "this nvlist contains an unsupported type (hrtime)"

Min(a, b) == IF a < b THEN a ELSE b

\* the seeds the stream contents are drawn from
StreamSeeds == {0, 254}
\* the i-th byte (from 1) of the stream with the given seed
ByteAt(seed, i) == (seed + i) % 256
StreamBytes(seed, n) == [i \in 1..n |-> ByteAt(seed, i)]
Drop(s, n) == SubSeq(s, n + 1, Len(s))
Take(s, n) == SubSeq(s, 1, n)

----------------------------------------------------------------------------
(* Send *)

VARIABLES
    stream,      \* sendStream: peekBuf, errorChan, lastError, isEOF
    sendPipe,    \* os.Pipe(): data in flight, r and w open
    sendTask,    \* the producer goroutine: pc, err
    sendKern,    \* the kernel's side of ZFS_IOC_SEND_NEW: seed, plan, status, written
    sendCall     \* the caller: pc, buf, ret, out, reader, sawEOF, recvs

sendVars == <<stream, sendPipe, sendTask, sendKern, sendCall>>

VARIABLES
    recv,        \* ReceiveStream: lastError, beginRecord, beginRecordPointer, the two channels
    recvPipe,    \* os.Pipe(): data in flight, r and w open
    recvTask,    \* the consumer goroutine: pc, beginRecord (opts.BeginRecord), status, called, sent
    recvKern,    \* the kernel's side of ZFS_IOC_RECV_NEW: need, outcome, got, req, res
    recvCall,    \* the caller: pc, pos, size, pending, off, n, ret, op, wacRet, wacs, forwarded
    recvOpts     \* ReceiveOpts.BeginRecord as passed to Receive: len, seed; seed of the written data

recvVars == <<recv, recvPipe, recvTask, recvKern, recvCall, recvOpts>>

VARIABLES
    callerCmd,   \* the caller's *Cmd: cookie
    nvCall,      \* one NvlistIoctl call: pc, nameLen, request, config, sink, dstSize, cmdCopy,
                 \* errno, outOK, unmarshalled, ret; given: the record as the caller passed it
    nvKern       \* the kernel's side of the control calls: one record per call issued

ioctlVars == <<callerCmd, nvCall, nvKern>>

VARIABLES
    codecPc,     \* what the caller of the codec does next: "value", "buffer", "done"
    goVal,       \* the value the caller marshals next
    kernelList,  \* the pairs of the list the kernel packed into the buffer, if it did
    wire,        \* the buffer the caller unmarshals next
    target,      \* the value it unmarshals into
    calls        \* the Marshal and Unmarshal calls made, with what they returned

codecVars == <<codecPc, goVal, kernelList, wire, target, calls>>

VARIABLES
    fsCaller,    \* the caller of the operations: op, cursor (of its listing), over,
                 \* edits (calls that change the pool), fresh (not listed since)
    fsCall,      \* one call of an operation: pc, its arguments, cmd, the working copy,
                 \* the request buffer, the response sink, dstSize
    fsKern,      \* the kernel: children (of the pool), issued: the control calls it got
    fsRets       \* what the calls returned

facadeVars == <<fsCaller, fsCall, fsKern, fsRets>>

vars == <<sendVars, recvVars, ioctlVars, codecVars, facadeVars>>

\* what the Send operations leave alone
outsideSend == <<recvVars, ioctlVars, codecVars, facadeVars>>
\* what the Receive operations leave alone
outsideRecv == <<sendVars, ioctlVars, codecVars, facadeVars>>
\* what the dispatcher leaves alone
outsideIoctl == <<sendVars, recvVars, codecVars, facadeVars>>
\* what the codec leaves alone
outsideCodec == <<sendVars, recvVars, ioctlVars, facadeVars>>
\* what the operations of the facade leave alone
outsideFacade == <<sendVars, recvVars, ioctlVars, codecVars>>

SendStatuses == {Nil, ENOENT, EIO}

\* r, w, err := os.Pipe(): the pipe is made, or the process is out of descriptors
PipeResults == {Nil, EMFILE}

SendInit ==
    /\ stream = [peekBuf |-> <<>>, errorChan |-> <<>>, lastError |-> Nil, isEOF |-> FALSE]
    /\ sendPipe = [data |-> <<>>, rOpen |-> FALSE, wOpen |-> FALSE]
    /\ sendTask = [pc |-> "idle", err |-> Nil]
    /\ \E seed \in StreamSeeds, plan \in 0..MaxStream, status \in SendStatuses :
          sendKern = [seed |-> seed, plan |-> plan, status |-> status, written |-> 0]
    /\ sendCall = [pc |-> "start", buf |-> 0, ret |-> [n |-> 0, err |-> Nil],
                   out |-> <<>>, reader |-> FALSE, sawEOF |-> FALSE, recvs |-> 0]

\* s.r.Read(buf) on the read end of the pipe: what os.File.Read returns, or blocks
PipeRead(pipe, len) ==
    IF ~pipe.rOpen THEN [blocked |-> FALSE, n |-> 0, err |-> ErrClosed]
    ELSE IF len = 0 THEN [blocked |-> FALSE, n |-> 0, err |-> Nil]
    ELSE IF pipe.data # <<>> THEN [blocked |-> FALSE, n |-> Min(len, Len(pipe.data)), err |-> Nil]
    ELSE IF ~pipe.wOpen THEN [blocked |-> FALSE, n |-> 0, err |-> EOF]
    ELSE [blocked |-> TRUE, n |-> 0, err |-> Nil]

\* if err == io.EOF
IsEndOfPipe_AnyErr(err) == err # Nil
IsEndOfPipe(err) == err = EOF

\* s.lastError = <-s.errorChan; if s.lastError == nil { s.lastError = io.EOF }
FinalStatus_NoEOF(err) == err
FinalStatus_AlwaysEOF(err) == EOF
FinalStatus(err) == IF err = Nil THEN EOF ELSE err

\* n := copy(buf, s.peekBuf); s.peekBuf = s.peekBuf[n:]
ReplayPeek_Keep(peekBuf, len) ==
    [n |-> Min(len, Len(peekBuf)), bytes |-> Take(peekBuf, Min(len, Len(peekBuf))),
     rest |-> peekBuf]
ReplayPeek(peekBuf, len) ==
    [n |-> Min(len, Len(peekBuf)), bytes |-> Take(peekBuf, Min(len, Len(peekBuf))),
     rest |-> Drop(peekBuf, Min(len, Len(peekBuf)))]

\* Send up to the start of the peek: os.Pipe(), the stream, go func(); when
\* os.Pipe fails Send returns nil and the error, with no pipe and no goroutine
SendStart ==
    /\ sendCall.pc = "start"
    /\ \E err \in PipeResults :
          IF err # Nil
          THEN /\ sendCall' = [sendCall EXCEPT !.pc = "failed",
                                               !.ret = [n |-> 0, err |-> err]]
               /\ UNCHANGED <<sendPipe, sendTask>>
          ELSE /\ sendPipe' = [data |-> <<>>, rOpen |-> TRUE, wOpen |-> TRUE]
               /\ sendTask' = [sendTask EXCEPT !.pc = "ioctl"]
               /\ sendCall' = [sendCall EXCEPT !.pc = "peek", !.buf = 1]
    /\ UNCHANGED <<stream, sendKern, outsideSend>>

\* the kernel, inside the control call, writes the next stream byte to the fd
KernelWrite ==
    /\ sendTask.pc = "ioctl"
    /\ sendKern.written < sendKern.plan
    /\ sendPipe.rOpen
    /\ Len(sendPipe.data) < PipeCap
    /\ sendPipe' = [sendPipe EXCEPT
                      !.data = Append(@, ByteAt(sendKern.seed, sendKern.written + 1))]
    /\ sendKern' = [sendKern EXCEPT !.written = @ + 1]
    /\ UNCHANGED <<stream, sendTask, sendCall, outsideSend>>

\* the kernel's write finds the read end closed: the control call fails
KernelWriteBroken ==
    /\ sendTask.pc = "ioctl"
    /\ sendKern.written < sendKern.plan
    /\ ~sendPipe.rOpen
    /\ sendTask' = [pc |-> "send_status", err |-> EPIPE]
    /\ UNCHANGED <<stream, sendPipe, sendKern, sendCall, outsideSend>>

\* err := NvlistIoctl(... ZFS_IOC_SEND_NEW ...) returns
KernelReturn ==
    /\ sendTask.pc = "ioctl"
    /\ sendKern.written = sendKern.plan
    /\ sendTask' = [pc |-> "send_status", err |-> sendKern.status]
    /\ UNCHANGED <<stream, sendPipe, sendKern, sendCall, outsideSend>>

\* errorChan: make(chan error, 1); stream.errorChan <- err proceeds when the buffer has
\* room (an unbuffered channel would need a receiver waiting in peek or Read)
SendProceeds_Unbuffered(errorChan) ==
    /\ errorChan = <<>>
    /\ sendCall.pc \in {"peek_status", "read_status"}
SendProceeds(errorChan) == Len(errorChan) < ErrorChanCap

\* stream.errorChan <- err
ProducerSendStatus ==
    /\ sendTask.pc = "send_status"
    /\ SendProceeds(stream.errorChan)
    /\ stream' = [stream EXCEPT !.errorChan = Append(@, sendTask.err)]
    /\ sendTask' = [sendTask EXCEPT !.pc = "close_w"]
    /\ UNCHANGED <<sendPipe, sendKern, sendCall, outsideSend>>

\* w.Close()
ProducerCloseW ==
    /\ sendTask.pc = "close_w"
    /\ sendPipe' = [sendPipe EXCEPT !.wOpen = FALSE]
    /\ sendTask' = [sendTask EXCEPT !.pc = "done"]
    /\ UNCHANGED <<stream, sendKern, sendCall, outsideSend>>

\* stream.peek(buf) with a 1-byte buffer, up to the return or the channel receive
SendPeek ==
    /\ sendCall.pc = "peek"
    /\ LET rd == PipeRead(sendPipe, sendCall.buf) IN
       /\ ~rd.blocked
       /\ stream' = [stream EXCEPT !.peekBuf = @ \o Take(sendPipe.data, rd.n)]
       /\ IF IsEndOfPipe(rd.err)
          THEN /\ sendCall' = [sendCall EXCEPT !.pc = "peek_status",
                                               !.sawEOF = (rd.err = EOF)]
               /\ UNCHANGED sendPipe
          ELSE IF rd.err # Nil
          THEN \* Send: r.Close(); w.Close(); return nil, err
               /\ sendCall' = [sendCall EXCEPT !.pc = "failed",
                                               !.ret = [n |-> rd.n, err |-> rd.err]]
               /\ sendPipe' = [data |-> <<>>, rOpen |-> FALSE, wOpen |-> FALSE]
          ELSE \* Send: return &stream, nil
               /\ sendCall' = [sendCall EXCEPT !.pc = "ready", !.reader = TRUE,
                                               !.ret = [n |-> rd.n, err |-> Nil]]
               /\ sendPipe' = [sendPipe EXCEPT !.data = Drop(@, rd.n)]
    /\ UNCHANGED <<sendTask, sendKern, outsideSend>>

\* peek: s.lastError = <-s.errorChan ... return n, s.lastError; then Send's if err != nil
SendPeekStatus ==
    /\ sendCall.pc = "peek_status"
    /\ stream.errorChan # <<>>
    /\ LET last == FinalStatus(Head(stream.errorChan)) IN
       /\ stream' = [stream EXCEPT !.errorChan = Tail(@), !.lastError = last,
                                   !.isEOF = TRUE]
       /\ IF last # Nil
          THEN /\ sendCall' = [sendCall EXCEPT !.pc = "failed", !.recvs = @ + 1,
                                               !.ret = [n |-> 0, err |-> last]]
               /\ sendPipe' = [data |-> <<>>, rOpen |-> FALSE, wOpen |-> FALSE]
          ELSE /\ sendCall' = [sendCall EXCEPT !.pc = "ready", !.recvs = @ + 1,
                                               !.reader = TRUE,
                                               !.ret = [n |-> 0, err |-> Nil]]
               /\ UNCHANGED sendPipe
    /\ UNCHANGED <<sendTask, sendKern, outsideSend>>

\* if s.isEOF { return 0, s.lastError }
StreamEnded_Never(s) == FALSE
StreamEnded(s) == s.isEOF

\* sendStream.Read(buf), up to the return or the channel receive
Read ==
    /\ sendCall.pc = "ready"
    /\ \E len \in 0..MaxBuf :
         IF StreamEnded(stream)
         THEN /\ sendCall' = [sendCall EXCEPT !.buf = len,
                                !.ret = [n |-> 0, err |-> stream.lastError]]
              /\ UNCHANGED <<stream, sendPipe>>
         ELSE IF Len(stream.peekBuf) > 0
         THEN LET rp == ReplayPeek(stream.peekBuf, len) IN
              /\ stream' = [stream EXCEPT !.peekBuf = rp.rest]
              /\ sendCall' = [sendCall EXCEPT !.buf = len, !.out = @ \o rp.bytes,
                                !.ret = [n |-> rp.n, err |-> Nil]]
              /\ UNCHANGED sendPipe
         ELSE LET rd == PipeRead(sendPipe, len) IN
              /\ ~rd.blocked
              /\ sendPipe' = [sendPipe EXCEPT !.data = Drop(@, rd.n)]
              /\ IF IsEndOfPipe(rd.err)
                 THEN sendCall' = [sendCall EXCEPT !.buf = len, !.pc = "read_status",
                                     !.sawEOF = (rd.err = EOF)]
                 ELSE sendCall' = [sendCall EXCEPT !.buf = len,
                                     !.out = @ \o Take(sendPipe.data, rd.n),
                                     !.ret = [n |-> rd.n, err |-> rd.err]]
              /\ UNCHANGED stream
    /\ UNCHANGED <<sendTask, sendKern, outsideSend>>

\* Read: s.lastError = <-s.errorChan ... s.isEOF = true; return n, s.lastError
ReadStatus ==
    /\ sendCall.pc = "read_status"
    /\ stream.errorChan # <<>>
    /\ LET last == FinalStatus(Head(stream.errorChan)) IN
       /\ stream' = [stream EXCEPT !.errorChan = Tail(@), !.lastError = last,
                                   !.isEOF = TRUE]
       /\ sendCall' = [sendCall EXCEPT !.pc = "ready", !.recvs = @ + 1,
                                       !.ret = [n |-> 0, err |-> last]]
    /\ UNCHANGED <<sendPipe, sendTask, sendKern, outsideSend>>

\* sendStream.Close(): s.r.Close()
Close ==
    /\ sendCall.pc = "ready"
    /\ sendPipe.rOpen
    /\ sendPipe' = [sendPipe EXCEPT !.rOpen = FALSE, !.data = <<>>]
    /\ UNCHANGED <<stream, sendTask, sendKern, sendCall, outsideSend>>

SendNext ==
    \/ SendStart
    \/ KernelWrite
    \/ KernelWriteBroken
    \/ KernelReturn
    \/ ProducerSendStatus
    \/ ProducerCloseW
    \/ SendPeek
    \/ SendPeekStatus
    \/ Read
    \/ ReadStatus
    \/ Close

----------------------------------------------------------------------------
(* NvlistIoctl: the control dispatcher *)

\* size of the output buffer of the first attempt
InitialDstSize == 8 * 1024
\* factor the output buffer grows by after an out-of-memory answer
GrowFactor == 8
\* cap of the output buffer
MaxDstSize == 16 * 1024 * 1024
\* size of the record's fixed name field
NameFieldLen == 4096

ErrBufferTooLarge == "buffer too large"
ErrNameTooLong == "String longer than target buffer"

\* Cmd.Cookie as the callers set it (a cursor, a flag)
CallerCookies == {0, 1}
\* lengths of the target name
NameLens == {0, NameFieldLen - 1, NameFieldLen}
\* a request or config value: absent, marshalable, or rejected by Marshal
MarshalInputs == {"nil", "ok", "bad"}
\* what the kernel can answer to a control call
KernelErrnos == {Nil, ENOMEM, ENOENT, EIO}
\* the value the kernel writes into the record's cookie during the n-th control call
KernelCookie(n) == 100 + n

IoctlInit ==
    /\ callerCmd \in [cookie : CallerCookies]
    /\ nvCall = [pc |-> "idle", nameLen |-> 0, request |-> "nil", config |-> "nil",
                 sink |-> FALSE, dstSize |-> 0, cmdCopy |-> [cookie |-> 0],
                 given |-> [cookie |-> 0],
                 errno |-> Nil, outOK |-> TRUE, unmarshalled |-> FALSE, ret |-> Nil]
    /\ nvKern = <<>>

\* stringToDelimitedBuf's length check: the name and its terminator must fit the field
NameFits(len, field) == ~(len > field - 1)

GrowDst_Double(size) == size * 2
\* the output buffer of the next attempt
GrowDst(size) == size * GrowFactor

PastCap_Late(size) == size > MaxDstSize * GrowFactor
\* the grown buffer is past the cap
PastCap(size) == size > MaxDstSize

Retries_AnyErr(errno) == errno # Nil
\* the answers after which the attempt is repeated with a larger buffer
Retries(errno) == errno = ENOMEM

\* the caller's record after an attempt the kernel answered with errno
WriteBack(cmd, copy, errno) == IF Retries(errno) THEN cmd ELSE copy

Unmarshals_Always(errno, sink) == sink
\* the output buffer is unmarshalled into the response sink
Unmarshals(errno, sink) == errno = Nil /\ sink

\* steps 1-3: marshal the request and the config, allocate the output buffer
NvlistIoctlCall ==
    /\ nvCall.pc = "idle"
    /\ \E nameLen \in NameLens, request \in MarshalInputs, config \in MarshalInputs,
          sink \in BOOLEAN :
         LET c == [nvCall EXCEPT !.nameLen = nameLen, !.request = request,
                                 !.config = config, !.sink = sink,
                                 !.given = callerCmd]
         IN  IF request = "bad" \/ config = "bad"
             THEN nvCall' = [c EXCEPT !.pc = "done", !.ret = ErrInvalidValue]
             ELSE nvCall' = [c EXCEPT !.pc = "attempt", !.dstSize = InitialDstSize]
    /\ UNCHANGED <<callerCmd, nvKern, outsideIoctl>>

\* an attempt up to the control call: working copy, pointers and sizes, name
Attempt ==
    /\ nvCall.pc = "attempt"
    /\ IF NameFits(nvCall.nameLen, NameFieldLen)
       THEN nvCall' = [nvCall EXCEPT !.pc = "syscall", !.cmdCopy = callerCmd]
       ELSE nvCall' = [nvCall EXCEPT !.pc = "done", !.cmdCopy = callerCmd,
                                     !.ret = ErrNameTooLong]
    /\ UNCHANGED <<callerCmd, nvKern, outsideIoctl>>

\* the kernel executes the control call: it answers with an errno, may write the
\* record it was handed, and on success fills the output buffer
Syscall ==
    /\ nvCall.pc = "syscall"
    /\ \E errno \in KernelErrnos, wrote \in BOOLEAN, outOK \in BOOLEAN :
         /\ errno # Nil => outOK
         /\ nvKern' = Append(nvKern, [dst |-> nvCall.dstSize, errno |-> errno,
                                      wrote |-> wrote])
         /\ nvCall' = [nvCall EXCEPT
                !.pc = "answered", !.errno = errno, !.outOK = outOK,
                !.cmdCopy = IF wrote THEN [cookie |-> KernelCookie(Len(nvKern) + 1)]
                            ELSE nvCall.cmdCopy]
    /\ UNCHANGED <<callerCmd, outsideIoctl>>

\* the rest of the attempt, and steps 5 and 6 after the loop
Answered ==
    /\ nvCall.pc = "answered"
    /\ callerCmd' = WriteBack(callerCmd, nvCall.cmdCopy, nvCall.errno)
    /\ IF Retries(nvCall.errno)
       THEN IF PastCap(GrowDst(nvCall.dstSize))
            THEN nvCall' = [nvCall EXCEPT !.pc = "done", !.ret = ErrBufferTooLarge]
            ELSE nvCall' = [nvCall EXCEPT !.pc = "attempt",
                                          !.dstSize = GrowDst(nvCall.dstSize)]
       ELSE IF Unmarshals(nvCall.errno, nvCall.sink)
            THEN nvCall' = [nvCall EXCEPT
                     !.pc = "done", !.unmarshalled = TRUE,
                     !.ret = IF nvCall.outOK THEN Nil ELSE ErrInvalidData]
            ELSE nvCall' = [nvCall EXCEPT !.pc = "done", !.ret = nvCall.errno]
    /\ UNCHANGED <<nvKern, outsideIoctl>>

IoctlNext ==
    \/ NvlistIoctlCall
    \/ Attempt
    \/ Syscall
    \/ Answered

----------------------------------------------------------------------------
(* nvlist codec: bytes and values *)

\* the nvtype constants after typeUnknown (0), in the order of their values
nvtypes ==
    <<"typeBoolean", "typeByte", "typeInt16", "typeUint16", "typeInt32", "typeUint32",
      "typeInt64", "typeUint64", "typeString", "typeByteArray", "typeInt16Array",
      "typeUint16Array", "typeInt32Array", "typeUint32Array", "typeInt64Array",
      "typeUint64Array", "typeStringArray", "typeHrtime", "typeNvlist",
      "typeNvlistArray", "typeBooleanValue", "typeInt8", "typeUint8",
      "typeBooleanArray", "typeInt8Array", "typeUint8Array", "typeDouble">>
\* the value of an nvtype constant
T(name) == IF name = "typeUnknown" THEN 0 ELSE CHOOSE i \in 1..Len(nvtypes) : nvtypes[i] = name
typeUnknown == T("typeUnknown")

\* struct nvpair: Size int32, Name_sz int16, Reserve int16, Value_elem int32, Type uint32
nvlistHeaderSize == 16
uniqueNameFlag == 1
EncodingNative == 0
EncodingXDR == 1
bigEndian == 0
littleEndian == 1
MaxInt16 == 32767
MaxInt32 == 2147483647

ErrInvalidEncoding == "this nvlist is not in native encoding"
ErrInvalidEndianess == "this nvlist is neither in big nor in little endian"
ErrUnexpectedEOF == "unexpected EOF"
Panic == "panic"

\* a Go value: its kind and its content
V(k, v) == [k |-> k, v |-> v]
\* the reflect.Value of a nil pointer or nil interface after unpackVal
Invalid == V("nil", 0)

IntKinds == {"int8", "uint8", "int16", "uint16", "int32", "uint32", "int64", "uint64"}
SignedKinds == {"int8", "int16", "int32", "int64"}
\* binary.Size of a scalar kind
KindSize(k) ==
    CASE k \in {"int8", "uint8"} -> 1
      [] k \in {"int16", "uint16"} -> 2
      [] k \in {"int32", "uint32"} -> 4
      [] k \in {"int64", "uint64", "float64"} -> 8

RECURSIVE Repeat(_, _)
Repeat(b, n) == IF n <= 0 THEN <<>> ELSE <<b>> \o Repeat(b, n - 1)

RECURSIVE Reverse(_)
Reverse(s) == IF s = <<>> THEN <<>> ELSE Reverse(Tail(s)) \o <<Head(s)>>

\* binary.LittleEndian.Put*: the w bytes of n in two's complement, lowest first
RECURSIVE PutLE(_, _)
PutLE(n, w) ==
    IF w = 0 THEN <<>> ELSE <<n % 256>> \o PutLE((n - (n % 256)) \div 256, w - 1)

\* the unsigned integer of bytes given lowest first
RECURSIVE UintLE(_)
UintLE(bs) == IF bs = <<>> THEN 0 ELSE Head(bs) + 256 * UintLE(Tail(bs))

\* the two's complement integer of bytes given lowest first
RECURSIVE IntLE(_)
IntLE(bs) ==
    IF Len(bs) = 1
    THEN IF bs[1] >= 128 THEN bs[1] - 256 ELSE bs[1]
    ELSE Head(bs) + 256 * IntLE(Tail(bs))

\* binary.ByteOrder decoding of an integer kind
DecodeInt(bs, signed, endianness) ==
    LET le == IF endianness = littleEndian THEN bs ELSE Reverse(bs)
    IN  IF signed THEN IntLE(le) ELSE UintLE(le)

\* the bytes of a scalar as binary.Write (little endian) lays them out
ScalarBytes(x) == IF x.k = "float64" THEN x.v ELSE PutLE(x.v, KindSize(x.k))

\* bytes a[1..] < b[1..] in the order of Go strings
RECURSIVE StrLess(_, _)
StrLess(a, b) ==
    IF b = <<>> THEN FALSE
    ELSE IF a = <<>> THEN TRUE
    ELSE IF Head(a) # Head(b) THEN Head(a) < Head(b)
    ELSE StrLess(Tail(a), Tail(b))

\* v.SetMapIndex(name, x) on a map held as its entries in key order
RECURSIVE SetMapIndex(_, _, _)
SetMapIndex(es, name, x) ==
    IF es = <<>> THEN <<[n |-> name, x |-> x]>>
    ELSE IF Head(es).n = name THEN <<[n |-> name, x |-> x]>> \o Tail(es)
    ELSE IF StrLess(name, Head(es).n) THEN <<[n |-> name, x |-> x]>> \o es
    ELSE <<Head(es)>> \o SetMapIndex(Tail(es), name, x)

----------------------------------------------------------------------------
(* nvlist codec: Marshal *)

\* nvlistWriter: nvlist, nvpairStartByte; log keeps, for every pair written, where it
\* starts, where its payload starts, where it ends, its depth and its name;
\* panicked records a panic of endNvPair
NewWriter == [nvlist |-> <<>>, nvpairStartByte |-> 0, log |-> <<>>, panicked |-> FALSE]

Writer_Write(w, buf) == [w EXCEPT !.nvlist = w.nvlist \o buf]

Writer_skipN(w, len) == Writer_Write(w, Repeat(0, len))

PadSize_Absolute(len, start) == IF len % 8 # 0 THEN 8 - (len % 8) ELSE 0
\* skipToAlign's padSize: the distance to the next multiple of 8 from the pair's start
PadSize(len, start) ==
    IF (len - start) % 8 # 0 THEN 8 - ((len - start) % 8) ELSE 0

Writer_skipToAlign(w) ==
    Writer_skipN(w, PadSize(Len(w.nvlist), w.nvpairStartByte))

\* the bytes of str before its first null byte
RECURSIVE UpToNull(_)
UpToNull(str) ==
    IF str = <<>> \/ Head(str) = 0 THEN <<>> ELSE <<Head(str)>> \o UpToNull(Tail(str))

HasNull(str) == \E i \in 1..Len(str) : str[i] = 0

\* writeString: the bytes up to a null byte, which ends the write with an error,
\* else the string and its terminator
writeString(w, str) ==
    IF HasNull(str)
    THEN [w |-> Writer_Write(w, UpToNull(str)), err |-> ErrInvalidValue]
    ELSE [w |-> Writer_Write(w, str \o <<0>>), err |-> Nil]

\* the stream header and the list header: encoding, endianness, reserved, version, flags
writeNvHeader(w, flags) ==
    Writer_Write(w, <<EncodingNative, littleEndian, 0, 0>> \o PutLE(0, 4) \o PutLE(flags, 4))

\* struct nvlist: Version, Nvflag, Priv, Flag, Pad
writeNvlistHeader(w) ==
    Writer_Write(w, PutLE(0, 4) \o PutLE(uniqueNameFlag, 4) \o PutLE(0, 8)
                    \o PutLE(0, 4) \o PutLE(0, 4))

startNvPair(w) ==
    [w EXCEPT !.nvpairStartByte = Len(w.nvlist),
              !.nvlist = w.nvlist \o Repeat(0, nvlistHeaderSize)]

\* the pair header as endNvPair writes it over the reserved bytes
PairHeader(size, nameSz, elem, type) ==
    PutLE(size, 4) \o PutLE(nameSz, 2) \o PutLE(0, 2) \o PutLE(elem, 4) \o PutLE(type, 4)

endNvPair(w, nvp, depth, name, payload) ==
    IF nvp.Type = typeUnknown \/ w.nvpairStartByte = 0
    THEN [w EXCEPT !.panicked = TRUE]
    ELSE LET a == Writer_skipToAlign(w)
             start == w.nvpairStartByte
             size == Len(a.nvlist) - start
             hdr == PairHeader(size, nvp.Name_sz, nvp.Value_elem, nvp.Type)
         IN  [a EXCEPT
                !.nvlist = [i \in 1..Len(a.nvlist) |->
                              IF i > start /\ i <= start + nvlistHeaderSize
                              THEN hdr[i - start] ELSE a.nvlist[i]],
                !.nvpairStartByte = 0,
                !.log = Append(w.log, [start |-> start, payload |-> payload,
                                       end |-> Len(a.nvlist), depth |-> depth,
                                       name |-> name])]

nvtypeFromKind(kind) ==
    CASE kind = "bool" -> T("typeBooleanValue")
      [] kind = "int8" -> T("typeInt8")
      [] kind = "int16" -> T("typeInt16")
      [] kind = "int32" -> T("typeInt32")
      [] kind = "int64" -> T("typeInt64")
      [] kind = "uint8" -> T("typeByte")
      [] kind = "uint16" -> T("typeUint16")
      [] kind = "uint32" -> T("typeUint32")
      [] kind = "uint64" -> T("typeUint64")
      [] kind = "float64" -> T("typeDouble")
      [] kind \in {"map", "struct"} -> T("typeNvlist")
      [] kind = "string" -> T("typeString")
      [] OTHER -> typeUnknown

nvtypeFromArrayKind(kind) ==
    CASE kind = "bool" -> T("typeBooleanArray")
      [] kind = "int8" -> T("typeInt8Array")
      [] kind = "int16" -> T("typeInt16Array")
      [] kind = "int32" -> T("typeInt32Array")
      [] kind = "int64" -> T("typeInt64Array")
      [] kind = "uint8" -> T("typeByteArray")
      [] kind = "uint16" -> T("typeUint16Array")
      [] kind = "uint32" -> T("typeUint32Array")
      [] kind = "uint64" -> T("typeUint64Array")
      [] kind \in {"map", "struct"} -> T("typeNvlistArray")
      [] kind = "string" -> T("typeStringArray")
      [] OTHER -> typeUnknown

\* a float64 given by its bytes is 0 or -0
FloatIsZero(bs) == \A i \in 1..8 : bs[i] = 0 \/ (i = 8 /\ bs[i] = 128)

isEmptyValue(x) ==
    CASE x.k \in {"map", "nilmap", "intmap", "string"} -> Len(x.v) = 0
      [] x.k \in {"tmap", "niltmap"} -> Len(x.v.es) = 0
      [] x.k = "slice" -> Len(x.v.es) = 0
      [] x.k = "bool" -> ~x.v
      [] x.k \in IntKinds \cup {"int"} -> x.v = 0
      [] x.k = "float64" -> FloatIsZero(x.v)
      [] OTHER -> FALSE

\* unpackVal: what a pointer or an interface holds, the invalid Value when it is
\* nil; kind "any" is the value of a field or element of type interface{}, kind
\* "iface" a pointer to an empty interface that holds nothing
unpackVal(x) ==
    IF x.k = "any" THEN x.v ELSE IF x.k = "iface" THEN Invalid ELSE x

\* a struct field reaches the list of names and values to write
EmitsField(f) ==
    /\ ~(f.opt = "omitempty" /\ isEmptyValue(unpackVal(f.x)))
    /\ f.opt # "ro"
    /\ unpackVal(f.x).k # "nil"

\* the name a struct field is written under
WireName(f) == IF f.name = <<>> THEN f.go ELSE f.name

\* the names and values of a struct, in declaration order
RECURSIVE StructItems(_)
StructItems(fs) ==
    IF fs = <<>> THEN <<>>
    ELSE (IF EmitsField(Head(fs))
          THEN <<[n |-> WireName(Head(fs)), x |-> unpackVal(Head(fs).x)]>>
          ELSE <<>>) \o StructItems(Tail(fs))

\* the names and values of a map[string]interface{}, without the nil ones, in the
\* order of es: the order MapKeys returned the keys in. MapIndex hands unpackVal the
\* element's interface, so what the element holds is taken as it is: a pointer it
\* holds stays a pointer
RECURSIVE MapItems(_)
MapItems(es) ==
    LET item(n, val) == IF val.k # "nil" THEN <<[n |-> n, x |-> val]>> ELSE <<>>
    IN  IF es = <<>> THEN <<>>
        ELSE item(Head(es).n, IF Head(es).x.k = "any" THEN Head(es).x.v ELSE Head(es).x)
             \o MapItems(Tail(es))

\* the names and values of a map of another element type: unpackVal gets the
\* element itself
RECURSIVE TypedMapItems(_)
TypedMapItems(es) ==
    LET item(n, val) == IF val.k # "nil" THEN <<[n |-> n, x |-> val]>> ELSE <<>>
    IN  IF es = <<>> THEN <<>>
        ELSE item(Head(es).n, unpackVal(Head(es).x)) \o TypedMapItems(Tail(es))

\* the payload bytes of a slice of scalars, of booleans or of strings
RECURSIVE ElemBytes(_, _)
ElemBytes(ek, es) ==
    IF es = <<>> THEN <<>>
    ELSE (CASE ek \in IntKinds -> ScalarBytes(Head(es))
            [] ek = "bool" -> PutLE(IF Head(es).v THEN 1 ELSE 0, 4)
            [] ek = "string" -> writeString(NewWriter, Head(es).v).w.nvlist)
         \o ElemBytes(ek, Tail(es))

\* n list headers, one after the other
RECURSIVE WriteHeaders(_, _)
WriteHeaders(w, n) == IF n <= 0 THEN w ELSE WriteHeaders(writeNvlistHeader(w), n - 1)

RECURSIVE writeNvPairs(_, _, _)
RECURSIVE WriteItem(_, _, _, _)
RECURSIVE WriteItems(_, _, _)
RECURSIVE WriteLists(_, _, _)

\* one iteration of the loop over names and vals of writeNvPairs; stop: the
\* function returns here
WriteItem(w, name, x, depth) ==
    LET nameLen == Len(name) + 1
        nvp == [Name_sz |-> nameLen, Value_elem |-> 1, Type |-> typeUnknown]
        return(w2, e) == [w |-> w2, err |-> e, stop |-> TRUE]
        goOn(w2) == [w |-> w2, err |-> Nil, stop |-> FALSE]
        \* after the lists of a map or a struct, and of a slice of them
        afterList(nested) ==
            IF nested.err = Panic THEN return(nested.w, Panic)
            ELSE IF nested.err # Nil THEN return(nested.w, Nil)
            ELSE goOn(nested.w)
        afterLists(nested) ==
            IF nested.err # Nil THEN return(nested.w, nested.err) ELSE goOn(nested.w)
        \* after endNvPair
        afterPair(ended) ==
            IF ended.panicked THEN return(ended, Panic)
            ELSE IF x.k \in {"map", "nilmap", "intmap", "tmap", "niltmap", "struct"}
            THEN afterList(writeNvPairs(ended, x, depth + 1))
            ELSE IF x.k = "slice" /\ x.v.ek \in {"map", "struct"}
            THEN afterLists(WriteLists(ended, x.v.es, depth + 1))
            ELSE goOn(ended)
        \* what was written before endNvPair, the pair's type and element count
        pair(named) ==
            CASE x.k \in IntKinds \cup {"float64"} ->
                    [w |-> Writer_Write(named, ScalarBytes(x)),
                     nvp |-> [nvp EXCEPT !.Type = nvtypeFromKind(x.k)]]
              [] x.k = "bool" ->
                    [w |-> named,
                     nvp |-> [nvp EXCEPT !.Type = T("typeBoolean"), !.Value_elem = 0]]
              [] x.k \in {"map", "nilmap", "intmap", "tmap", "niltmap", "struct"} ->
                    [w |-> writeNvlistHeader(named),
                     nvp |-> [nvp EXCEPT !.Type = T("typeNvlist")]]
              [] x.k = "string" ->
                    [w |-> writeString(named, x.v).w,
                     nvp |-> [nvp EXCEPT !.Type = T("typeString")]]
              [] x.k = "slice" /\ x.v.ek \in IntKinds \cup {"bool"} ->
                    [w |-> Writer_Write(named, ElemBytes(x.v.ek, x.v.es)),
                     nvp |-> [nvp EXCEPT !.Type = nvtypeFromArrayKind(x.v.ek),
                                         !.Value_elem = Len(x.v.es)]]
              [] x.k = "slice" /\ x.v.ek = "string" ->
                    [w |-> Writer_Write(Writer_skipN(named, 8 * Len(x.v.es)),
                                        ElemBytes(x.v.ek, x.v.es)),
                     nvp |-> [nvp EXCEPT !.Type = T("typeStringArray"),
                                         !.Value_elem = Len(x.v.es)]]
              [] x.k = "slice" /\ x.v.ek \in {"map", "struct"} ->
                    [w |-> WriteHeaders(Writer_skipN(named, 8 * Len(x.v.es)),
                                        Len(x.v.es)),
                     nvp |-> [nvp EXCEPT !.Type = T("typeNvlistArray"),
                                         !.Value_elem = Len(x.v.es)]]
              [] OTHER -> [w |-> named, nvp |-> nvp]
        endPair(named, p) ==
            IF p.nvp.Type = typeUnknown THEN return(named, ErrInvalidValue)
            ELSE afterPair(endNvPair(p.w, p.nvp, depth, name, Len(named.nvlist)))
        value(named) ==
            IF x.k = "slice" /\ Len(x.v.es) >= MaxInt32
            THEN return(named, ErrInvalidValue)
            ELSE endPair(named, pair(named))
    IN  IF nameLen >= MaxInt16 THEN return(w, ErrInvalidValue)
        ELSE IF x.k = "bool" /\ ~x.v THEN goOn(w)
        ELSE value(Writer_skipToAlign(writeString(startNvPair(w), name).w))

\* the loop over names and vals of writeNvPairs
WriteItems(w, items, depth) ==
    LET then(one) == IF one.stop THEN one ELSE WriteItems(one.w, Tail(items), depth)
    IN  IF items = <<>> THEN [w |-> w, err |-> Nil, stop |-> FALSE]
        ELSE then(WriteItem(w, Head(items).n, Head(items).x, depth))

\* the pair sequences of the elements of a slice of maps or structs
WriteLists(w, es, depth) ==
    LET then(one) == IF one.err # Nil THEN one ELSE WriteLists(one.w, Tail(es), depth)
    IN  IF es = <<>> THEN [w |-> w, err |-> Nil]
        ELSE then(writeNvPairs(w, Head(es), depth))

\* the entries of a map are iterated in the order they are held in, which is the
\* order MapKeys gave for this call; kind "intmap" is a map whose keys are not
\* strings, kind "niltmap" a nil map of a type other than map[string]interface{}
writeNvPairs(w, val, depth) ==
    LET trailer(written) ==
            IF written.stop THEN [w |-> written.w, err |-> written.err]
            ELSE [w |-> Writer_skipN(written.w, 4), err |-> Nil]
        pairs(v) ==
            IF v.k = "nil" THEN [w |-> w, err |-> Nil]
            ELSE IF v.k \notin {"map", "nilmap", "intmap", "tmap", "niltmap", "struct"}
            THEN [w |-> w, err |-> ErrInvalidValue]
            ELSE IF v.k = "intmap" /\ v.v # <<>>
            THEN [w |-> w, err |-> ErrInvalidValue]
            ELSE trailer(WriteItems(w,
                                    IF v.k = "struct" THEN StructItems(v.v)
                                    ELSE IF v.k = "intmap" THEN <<>>
                                    ELSE IF v.k \in {"tmap", "niltmap"} THEN TypedMapItems(v.v.es)
                                    ELSE MapItems(v.v),
                                    depth))
    IN  pairs(unpackVal(val))

\* Marshal: the buffer (nil on error), the error, and the writer's log
Marshal(val) ==
    LET result(r) ==
            [buf |-> IF r.err = Nil THEN r.w.nvlist ELSE <<>>, err |-> r.err,
             log |-> r.w.log]
    IN  result(writeNvPairs(writeNvHeader(NewWriter, uniqueNameFlag), val, 0))

----------------------------------------------------------------------------
(* nvlist codec: Unmarshal *)

\* the n bytes of buf from offset cur (offsets count from 0)
Bytes(buf, cur, n) == SubSeq(buf, cur + 1, cur + n)

\* io.ReadFull's error for a Read that returned have of the bytes asked for
ShortRead(have) == IF have > 0 THEN ErrUnexpectedEOF ELSE EOF

\* nvlistReader.readInt: n bytes at the list's position
nvlistReader_readInt(buf, cur, n) ==
    IF cur + n <= Len(buf)
    THEN [err |-> Nil, bs |-> Bytes(buf, cur, n), cur |-> cur + n]
    ELSE [err |-> ShortRead(Len(buf) - cur), bs |-> <<>>, cur |-> Len(buf)]

\* binary.Read on the pair reader: n bytes before the pair's end
nvPairReader_Read(buf, cur, n, end) ==
    IF n = 0 THEN [err |-> Nil, bs |-> <<>>, cur |-> cur]
    ELSE IF cur + n <= end
    THEN [err |-> Nil, bs |-> Bytes(buf, cur, n), cur |-> cur + n]
    ELSE [err |-> ShortRead(end - cur), bs |-> <<>>, cur |-> end]

ReadByteBound_Exclusive(cur, end) == cur < end
\* the positions nvPairReader.ReadByte and ReadBytes read from
ReadByteBound(cur, end) == cur <= end

nvPairReader_ReadByte(buf, cur, end) ==
    IF ReadByteBound(cur, end)
    THEN IF cur < Len(buf)
         THEN [err |-> Nil, bs |-> <<buf[cur + 1]>>, cur |-> cur + 1]
         ELSE [err |-> Panic, bs |-> <<>>, cur |-> cur]
    ELSE [err |-> ErrInvalidData, bs |-> <<>>, cur |-> cur]

\* nvPairReader.ReadBytes(0x00): the bytes up to the delimiter, without it
RECURSIVE ReadBytesFrom(_, _, _, _)
ReadBytesFrom(buf, from, cur, end) ==
    IF ~ReadByteBound(cur, end) THEN [err |-> ErrInvalidData, bs |-> <<>>, cur |-> cur]
    ELSE IF cur >= Len(buf) THEN [err |-> Panic, bs |-> <<>>, cur |-> cur]
    ELSE IF buf[cur + 1] = 0
    THEN [err |-> Nil, bs |-> Bytes(buf, from, cur - from), cur |-> cur + 1]
    ELSE ReadBytesFrom(buf, from, cur + 1, end)

nvPairReader_ReadBytes(buf, cur, end) == ReadBytesFrom(buf, cur, cur, end)

nvPairReader_readN(buf, cur, n, end) ==
    IF cur + n <= end
    THEN [err |-> Nil, bs |-> Bytes(buf, cur, n), cur |-> cur + n]
    ELSE [err |-> ErrInvalidData, bs |-> <<>>, cur |-> cur]

\* nvPairReader.skipToAlign: the next position aligned from the pair's start
nvPairReader_skipToAlign(cur, start, encoding) ==
    LET alignment == IF encoding = EncodingNative THEN 8 ELSE 4
    IN  IF (cur - start) % alignment # 0
        THEN cur + alignment - ((cur - start) % alignment)
        ELSE cur

\* the Go kind an integer tag decodes to, tags of arrays included
TagKind(type) ==
    CASE type \in {T("typeInt16"), T("typeInt16Array")} -> "int16"
      [] type \in {T("typeUint16"), T("typeUint16Array")} -> "uint16"
      [] type \in {T("typeInt32"), T("typeInt32Array")} -> "int32"
      [] type \in {T("typeUint32"), T("typeUint32Array")} -> "uint32"
      [] type \in {T("typeInt64"), T("typeInt64Array")} -> "int64"
      [] type \in {T("typeUint64"), T("typeUint64Array")} -> "uint64"
      [] type \in {T("typeInt8"), T("typeInt8Array")} -> "int8"
      [] type \in {T("typeUint8"), T("typeUint8Array"), T("typeByte"),
                   T("typeByteArray")} -> "uint8"

IntegerTags ==
    {T("typeInt16"), T("typeUint16"), T("typeInt32"), T("typeUint32"),
     T("typeInt64"), T("typeUint64"), T("typeInt8"), T("typeUint8")}
IntegerArrayTags ==
    {T("typeInt16Array"), T("typeUint16Array"), T("typeInt32Array"), T("typeUint32Array"),
     T("typeInt64Array"), T("typeUint64Array"), T("typeInt8Array"), T("typeUint8Array")}

\* the integers of kind k held by bs
RECURSIVE DecodeInts(_, _, _)
DecodeInts(bs, k, endianness) ==
    IF bs = <<>> THEN <<>>
    ELSE <<V(k, DecodeInt(SubSeq(bs, 1, KindSize(k)), k \in SignedKinds, endianness))>>
         \o DecodeInts(SubSeq(bs, KindSize(k) + 1, Len(bs)), k, endianness)

\* n null-terminated strings from cur
RECURSIVE ReadStrings(_, _, _, _)
ReadStrings(buf, cur, n, end) ==
    IF n = 0 THEN [err |-> Nil, es |-> <<>>, cur |-> cur]
    ELSE LET one == nvPairReader_ReadBytes(buf, cur, end)
             rest == ReadStrings(buf, one.cur, n - 1, end)
         IN  IF one.err # Nil THEN [err |-> one.err, es |-> <<>>, cur |-> one.cur]
             ELSE [rest EXCEPT !.es = <<V("string", one.bs)>> \o rest.es]

\* n booleans held as int32 from cur
RECURSIVE ReadBools(_, _, _, _, _)
ReadBools(buf, cur, n, end, endianness) ==
    IF n = 0 THEN [err |-> Nil, es |-> <<>>, cur |-> cur]
    ELSE LET one == nvPairReader_Read(buf, cur, 4, end)
             tmp == DecodeInt(one.bs, TRUE, endianness)
             rest == ReadBools(buf, one.cur, n - 1, end, endianness)
         IN  IF one.err # Nil THEN [err |-> one.err, es |-> <<>>, cur |-> one.cur]
             ELSE IF tmp \notin {0, 1}
             THEN [err |-> ErrInvalidData, es |-> <<>>, cur |-> one.cur]
             ELSE [rest EXCEPT !.es = <<V("bool", tmp = 1)>> \o rest.es]

\* structFieldByName[name]: the last field with that name on the wire, 0 if none
FieldByName(fs, name) ==
    LET hits == {i \in 1..Len(fs) : WireName(fs[i]) = name}
    IN  IF hits = {} THEN 0 ELSE CHOOSE i \in hits : \A j \in hits : j <= i

\* the kinds of the maps with string keys: map[string]interface{} and its nil
\* value, the maps of another element type and their nil value
GenericMaps == {"map", "nilmap"}
TypedMaps == {"tmap", "niltmap"}

\* reflect's rule for field.Set and SetMapIndex: the value's type is the target's,
\* or the target is of type interface{} (kind "any"); a map and the nil map of
\* its type are of one type
Assignable(to, x) ==
    \/ to.k = "any"
    \/ to.k \in GenericMaps /\ x.k \in GenericMaps
    \/ to.k \in TypedMaps /\ x.k \in TypedMaps /\ to.v.elem = x.v.elem
    \/ /\ to.k = x.k
       /\ to.k \notin GenericMaps \cup TypedMaps
       /\ x.k = "slice" => to.v.ek = x.v.ek

\* what a field or element of the type of to holds once x is stored in it
Stored(to, x) == IF to.k = "any" THEN V("any", x) ELSE x

\* setPrimitive for a pair whose name no field of the struct has
UnknownField(v, x) == [err |-> Nil, v |-> v]

\* setPrimitive: the target with the value stored under the name; kind "rostruct"
\* is a record handed over by value, whose fields reflect cannot set; kind "tmap"
\* is a map whose elements are of the type of v.v.elem, not interface{}; a nil
\* map and a map whose keys are not strings make SetMapIndex panic
setPrimitive(v, name, x) ==
    IF v.k = "rostruct" THEN [err |-> Nil, v |-> v]
    ELSE IF v.k = "struct"
    THEN LET i == FieldByName(v.v, name)
         IN  IF i = 0 THEN UnknownField(v, x)
             ELSE IF Assignable(v.v[i].x, x)
             THEN [err |-> Nil, v |-> [v EXCEPT !.v[i].x = Stored(v.v[i].x, x)]]
             ELSE [err |-> Panic, v |-> v]
    ELSE IF v.k = "map"
    THEN [err |-> Nil, v |-> [v EXCEPT !.v = SetMapIndex(v.v, name, x)]]
    ELSE IF v.k = "tmap" /\ Assignable(v.v.elem, x)
    THEN [err |-> Nil,
          v |-> [v EXCEPT !.v.es = SetMapIndex(v.v.es, name, Stored(v.v.elem, x))]]
    ELSE [err |-> Panic, v |-> v]

\* the outcome of the tag switch for a tag none of its cases names: the pair is skipped
UnhandledTag(type) == Nil

\* the zero value of the type of x: what a fresh record of that type holds
\* (a map type's zero is the nil map; a nil and an empty map[int]uint32 are written
\* and refused alike, so one value stands for both)
RECURSIVE ZeroOf(_)
ZeroOf(x) ==
    CASE x.k \in IntKinds \cup {"int"} -> V(x.k, 0)
      [] x.k = "float64" -> V(x.k, Repeat(0, 8))
      [] x.k = "bool" -> V(x.k, FALSE)
      [] x.k = "string" -> V(x.k, <<>>)
      [] x.k = "slice" -> V(x.k, [ek |-> x.v.ek, es |-> <<>>])
      [] x.k \in {"map", "nilmap"} -> V("nilmap", <<>>)
      [] x.k = "intmap" -> V("intmap", <<>>)
      [] x.k \in TypedMaps -> V("niltmap", [elem |-> x.v.elem, es |-> <<>>])
      [] x.k = "any" -> V("any", Invalid)
      \* the zero of a pointer type is the nil pointer
      [] x.k = "iface" -> Invalid
      [] x.k = "struct" -> V(x.k, [i \in 1..Len(x.v) |-> [x.v[i] EXCEPT !.x = ZeroOf(x.v[i].x)]])
      [] OTHER -> x

RECURSIVE readPairs(_, _, _)
RECURSIVE DecodePair(_, _, _, _, _, _, _, _, _)
RECURSIVE ReadPair(_, _, _)
RECURSIVE ReadPairLoop(_, _, _)
RECURSIVE ReadLists(_, _, _)

\* the pair sequences of an nvlist array, each into a new generic map
ReadLists(r, cur, n) ==
    LET cons(one, rest) == [rest EXCEPT !.es = <<one.v>> \o rest.es]
        then(one) == IF one.err # Nil THEN [err |-> one.err, es |-> <<>>, cur |-> one.cur]
                     ELSE cons(one, ReadLists(r, one.cur, n - 1))
    IN  IF n = 0 THEN [err |-> Nil, es |-> <<>>, cur |-> cur]
        ELSE then(readPairs(r, cur, V("map", <<>>)))

\* readPairs: decode the pairs from the list's position cur into v; an empty
\* interface (a pointer to one, or a field of that type) is given a new generic map;
\* a map of any type is a valid receiver, whatever its keys
readPairs(r, cur, v) ==
    LET held(p) == [p EXCEPT !.v = V("any", p.v)]
    IN  IF v.k = "any" THEN held(ReadPairLoop(r, cur, V("map", <<>>)))
        ELSE IF v.k \in {"iface", "struct", "rostruct", "map", "nilmap", "intmap", "tmap", "niltmap"}
        THEN ReadPairLoop(r, cur, IF v.k = "iface" THEN V("map", <<>>) ELSE v)
        ELSE [err |-> ErrInvalidData, v |-> v, cur |-> cur]

\* the read the tag switch makes through the pair reader for the payload at at of a
\* pair that ends at end: the bytes or elements it got and the position it left
PayloadRead(r, at, end, Type, Value_elem) ==
    LET buf == r.nvlist
    IN  CASE Type \in IntegerTags ->
                nvPairReader_Read(buf, at, KindSize(TagKind(Type)), end)
          [] Type = T("typeByte") -> nvPairReader_ReadByte(buf, at, end)
          [] Type = T("typeString") -> nvPairReader_ReadBytes(buf, at, end)
          [] Type = T("typeBooleanValue") -> nvPairReader_Read(buf, at, 4, end)
          [] Type \in IntegerArrayTags ->
                nvPairReader_Read(buf, at, Value_elem * KindSize(TagKind(Type)), end)
          [] Type = T("typeByteArray") -> nvPairReader_readN(buf, at, Value_elem, end)
          [] Type = T("typeStringArray") ->
                ReadStrings(buf, at + 8 * Value_elem, Value_elem, end)
          [] Type = T("typeBooleanArray") ->
                ReadBools(buf, at, Value_elem, end, r.endianness)
          [] OTHER -> [err |-> Nil, bs |-> <<>>, cur |-> at]

\* the tag switch of readPairs for the pair from start to end, its payload at at,
\* the next pair at after; more: the loop goes on, at cur
DecodePair(r, v, start, end, after, at, name, Type, Value_elem) ==
    LET buf == r.nvlist
        fail(e) == [err |-> e, v |-> v, cur |-> start, more |-> FALSE]
        \* the loop goes on at c with the target as the pair left it
        next(sp, c) == IF sp.err # Nil THEN fail(sp.err)
                       ELSE [err |-> Nil, v |-> sp.v, cur |-> c, more |-> TRUE]
        set(err, x) == IF err # Nil THEN fail(err) ELSE next(setPrimitive(v, name, x), after)
        int(rd) == set(rd.err, V(TagKind(Type),
                                 DecodeInt(rd.bs, TagKind(Type) \in SignedKinds,
                                           r.endianness)))
        byte(rd) == set(rd.err, V("uint8", rd.bs[1]))
        string(rd) == set(rd.err, V("string", rd.bs))
        bool(rd, tmp) == IF rd.err = Nil /\ tmp \notin {0, 1} THEN fail(ErrInvalidData)
                         ELSE set(rd.err, V("bool", tmp = 1))
        ints(rd, k) ==
            set(rd.err, V("slice", [ek |-> k, es |-> DecodeInts(rd.bs, k, r.endianness)]))
        elems(rd, k) == set(rd.err, V("slice", [ek |-> k, es |-> rd.es]))
        \* readPairs(field) works on the field itself: what it stored before it
        \* failed stays in the record
        inField(i, nested) ==
            IF nested.err # Nil
            THEN [err |-> nested.err, v |-> [v EXCEPT !.v[i].x = nested.v],
                  cur |-> start, more |-> FALSE]
            ELSE next([err |-> Nil, v |-> [v EXCEPT !.v[i].x = nested.v]], nested.cur)
        field(i) == IF i = 0 THEN next(UnknownField(v, Invalid), after)
                    ELSE inField(i, readPairs(r, after, v.v[i].x))
        entry(nested) ==
            IF nested.err # Nil THEN fail(nested.err)
            ELSE next(setPrimitive(v, name, nested.v), nested.cur)
        array(lists) ==
            IF lists.err # Nil THEN fail(lists.err)
            ELSE next(setPrimitive(v, name, V("slice", [ek |-> "map", es |-> lists.es])),
                      lists.cur)
    IN
    CASE Type = typeUnknown -> fail(ErrInvalidData)
      [] Type = T("typeBoolean") -> set(Nil, V("bool", TRUE))
      [] Type \in IntegerTags -> int(PayloadRead(r, at, end, Type, Value_elem))
      [] Type = T("typeByte") -> byte(PayloadRead(r, at, end, Type, Value_elem))
      [] Type = T("typeString") -> string(PayloadRead(r, at, end, Type, Value_elem))
      [] Type = T("typeBooleanValue") ->
            bool(PayloadRead(r, at, end, Type, Value_elem),
                 DecodeInt(Bytes(buf, at, 4), TRUE, r.endianness))
      [] Type \in IntegerArrayTags ->
            ints(PayloadRead(r, at, end, Type, Value_elem), TagKind(Type))
      [] Type = T("typeByteArray") ->
            ints(PayloadRead(r, at, end, Type, Value_elem), "uint8")
      [] Type = T("typeStringArray") ->
            elems(PayloadRead(r, at, end, Type, Value_elem), "string")
      [] Type = T("typeBooleanArray") ->
            elems(PayloadRead(r, at, end, Type, Value_elem), "bool")
      [] Type = T("typeNvlist") ->
            IF v.k = "struct" THEN field(FieldByName(v.v, name))
            ELSE IF v.k = "rostruct" THEN field(0)
            ELSE IF v.k \in TypedMaps
            THEN IF v.v.elem.k = "any" THEN entry(readPairs(r, after, V("map", <<>>)))
                 ELSE IF v.v.elem.k = "struct"
                 THEN entry(readPairs(r, after, ZeroOf(v.v.elem)))
                 \* MakeMap(MapOf(string, valueType.Elem()))
                 ELSE IF v.v.elem.k \in GenericMaps
                 THEN entry(readPairs(r, after, V("map", <<>>)))
                 ELSE IF v.v.elem.k \in TypedMaps
                 THEN entry(readPairs(r, after,
                                      V("tmap", [elem |-> v.v.elem.v.elem, es |-> <<>>])))
                 ELSE IF v.v.elem.k = "intmap"
                 THEN entry(readPairs(r, after,
                                      V("tmap", [elem |-> V("uint32", 0), es |-> <<>>])))
                 ELSE fail(Panic)
            \* the elements of a map with integer keys are uint32
            ELSE IF v.k = "intmap" THEN fail(Panic)
            ELSE entry(readPairs(r, after, V("map", <<>>)))
      [] Type = T("typeNvlistArray") ->
            IF v.k \in {"struct", "rostruct"} THEN fail(Panic)
            ELSE array(ReadLists(r, after, Value_elem))
      [] OTHER -> IF UnhandledTag(Type) # Nil THEN fail(UnhandledTag(Type))
                  ELSE [err |-> Nil, v |-> v, cur |-> after, more |-> TRUE]

\* one iteration of the loop of readPairs: the pair's header and name, then the
\* tag switch
ReadPair(r, cur, v) ==
    LET buf == r.nvlist
        fail(e) == [err |-> e, v |-> v, cur |-> cur, more |-> FALSE]
        int(bs) == DecodeInt(bs, TRUE, r.endianness)
        named(end, nameRaw, Type, Value_elem) ==
            IF nameRaw.err # Nil THEN fail(nameRaw.err)
            ELSE DecodePair(r, v, cur, end,
                            IF r.encoding = EncodingXDR THEN end + 4 ELSE end,
                            nvPairReader_skipToAlign(nameRaw.cur, cur, r.encoding),
                            SubSeq(nameRaw.bs, 1, Len(nameRaw.bs) - 1),
                            Type, Value_elem)
        typed(end, Name_sz, Value_elem, typ) ==
            IF typ.err # Nil THEN fail(typ.err)
            ELSE named(end, nvPairReader_readN(buf, typ.cur, Name_sz, end),
                       DecodeInt(typ.bs, FALSE, r.endianness), Value_elem)
        counted(end, Name_sz, elem, Value_elem) ==
            IF elem.err # Nil THEN fail(elem.err)
            ELSE IF Value_elem < 0 \/ Value_elem > 65535 THEN fail(ErrInvalidData)
            ELSE typed(end, Name_sz, Value_elem, nvPairReader_Read(buf, elem.cur, 4, end))
        reserved(end, Name_sz, res) ==
            IF res.err # Nil THEN fail(res.err)
            ELSE counted(end, Name_sz, nvPairReader_Read(buf, res.cur, 4, end),
                         int(Bytes(buf, res.cur, 4)))
        nameSized(end, nsz, Name_sz) ==
            IF nsz.err # Nil THEN fail(nsz.err)
            ELSE IF Name_sz <= 0 THEN fail(ErrInvalidData)
            ELSE reserved(end, Name_sz, nvPairReader_Read(buf, nsz.cur, 2, end))
        sized(sz, Size) ==
            IF sz.err # Nil THEN fail(sz.err)
            ELSE IF Size < 0 THEN fail(ErrInvalidData)
            ELSE IF Size = 0 THEN [err |-> Nil, v |-> v, cur |-> sz.cur, more |-> FALSE]
            ELSE IF Size + sz.cur > Len(buf) THEN fail(ErrInvalidData)
            ELSE nameSized(cur + Size, nvPairReader_Read(buf, cur + 4, 2, cur + Size),
                           int(Bytes(buf, cur + 4, 2)))
    IN  sized(nvlistReader_readInt(buf, cur, 4), int(Bytes(buf, cur, 4)))

\* the loop of readPairs
ReadPairLoop(r, cur, v) ==
    LET then(p) == IF p.more THEN ReadPairLoop(r, p.cur, p.v)
                   ELSE [err |-> p.err, v |-> p.v, cur |-> p.cur]
    IN  then(ReadPair(r, cur, v))

\* readNvHeader: encoding, endianness, two reserved bytes, version and flags
readNvHeader(data) ==
    IF Len(data) < 1 THEN [err |-> ErrInvalidData, cur |-> 0]
    ELSE IF data[1] \notin {EncodingNative, EncodingXDR}
    THEN [err |-> ErrInvalidEncoding, cur |-> 1]
    ELSE IF Len(data) < 2 THEN [err |-> ErrInvalidData, cur |-> 1]
    ELSE IF data[2] \notin {bigEndian, littleEndian}
    THEN [err |-> ErrInvalidEndianess, cur |-> 2]
    ELSE LET version == nvlistReader_readInt(data, 4, 4)
             flags == nvlistReader_readInt(data, version.cur, 4)
         IN  IF version.err # Nil THEN [err |-> version.err, cur |-> version.cur]
             ELSE [err |-> flags.err, cur |-> flags.cur]

\* Unmarshal: the error and the target as the decoder left it
Unmarshal(data, val) ==
    LET result(p) == [err |-> p.err, v |-> p.v]
        pairs(h) ==
            IF h.err # Nil THEN [err |-> h.err, v |-> val]
            ELSE result(readPairs([nvlist |-> data, endianness |-> data[2],
                                   encoding |-> data[1]],
                                  h.cur, val))
    IN  pairs(readNvHeader(data))

----------------------------------------------------------------------------
(* nvlist codec: the buffers the kernel hands out, and the values callers pass *)

\* most pairs of a kernel list, most fields of a record
MaxPairs == 2
MaxFields == 2

\* the name of the j-th pair of a list or field of a record: 1 or 7 bytes
NameAt(j) == IF j % 2 = 0 THEN [i \in 1..7 |-> 96 + j] ELSE <<96 + j>>

\* the real value of a header field
Auto == [set |-> FALSE, to |-> 0]
\* a header field that does not hold the real value
Forged(n) == [set |-> TRUE, to |-> n]

\* a pair as the kernel lays it out (struct nvpair, then the name, then the value,
\* both aligned to 8 bytes); lists holds the pair sequences that follow an nvlist
\* or nvlist array pair
KPair(type, elem, payload) ==
    [type |-> type, elem |-> elem, payload |-> payload, nameSz |-> Auto, size |-> Auto,
     lists |-> <<>>]

Pad8(bs) == bs \o Repeat(0, (8 - (Len(bs) % 8)) % 8)

RECURSIVE KListBytes(_, _)
RECURSIVE KListsBytes(_)

\* the bytes of the pairs of a list from its j-th, and the list's terminator
KListBytes(ps, j) ==
    IF j > Len(ps) THEN PutLE(0, 4)
    ELSE LET p == ps[j]
             name == NameAt(j) \o <<0>>
             body == Pad8(Pad8(Repeat(0, nvlistHeaderSize) \o name) \o p.payload)
             hdr == PairHeader(IF p.size.set THEN p.size.to ELSE Len(body),
                               IF p.nameSz.set THEN p.nameSz.to ELSE Len(name),
                               p.elem, p.type)
         IN  hdr \o SubSeq(body, nvlistHeaderSize + 1, Len(body))
             \o KListsBytes(p.lists) \o KListBytes(ps, j + 1)

KListsBytes(ls) ==
    IF ls = <<>> THEN <<>> ELSE KListBytes(Head(ls), 1) \o KListsBytes(Tail(ls))

\* a packed nvlist in native encoding, little endian
KBuf(ps) ==
    <<EncodingNative, littleEndian, 0, 0>> \o PutLE(0, 4) \o PutLE(uniqueNameFlag, 4)
    \o KListBytes(ps, 1)

NvlistHeaderBytes == writeNvlistHeader(NewWriter).nvlist

\* one well-formed pair of every tag of data_type_t
KCatalogue ==
    << KPair(T("typeBoolean"), 0, <<>>),
       KPair(T("typeByte"), 1, <<7>>),
       KPair(T("typeInt16"), 1, PutLE(-2, 2)),
       KPair(T("typeUint16"), 1, PutLE(513, 2)),
       KPair(T("typeInt32"), 1, PutLE(-3, 4)),
       KPair(T("typeUint32"), 1, PutLE(70000, 4)),
       KPair(T("typeInt64"), 1, PutLE(-4, 8)),
       KPair(T("typeUint64"), 1, PutLE(5, 8)),
       KPair(T("typeString"), 1, <<104, 105, 0>>),
       KPair(T("typeByteArray"), 3, <<1, 2, 3>>),
       KPair(T("typeInt16Array"), 2, PutLE(-1, 2) \o PutLE(2, 2)),
       KPair(T("typeUint16Array"), 2, PutLE(1, 2) \o PutLE(513, 2)),
       KPair(T("typeInt32Array"), 2, PutLE(-1, 4) \o PutLE(2, 4)),
       KPair(T("typeUint32Array"), 0, <<>>),
       KPair(T("typeInt64Array"), 1, PutLE(-1, 8)),
       KPair(T("typeUint64Array"), 2, PutLE(1, 8) \o PutLE(2, 8)),
       KPair(T("typeStringArray"), 2, Repeat(0, 16) \o <<120, 0, 121, 122, 0>>),
       KPair(T("typeHrtime"), 1, PutLE(9, 8)),
       [KPair(T("typeNvlist"), 1, NvlistHeaderBytes) EXCEPT
            !.lists = << <<KPair(T("typeUint64"), 1, PutLE(6, 8))>> >>],
       [KPair(T("typeNvlistArray"), 2,
              Repeat(0, 16) \o NvlistHeaderBytes \o NvlistHeaderBytes) EXCEPT
            !.lists = << <<KPair(T("typeString"), 1, <<120, 0>>)>>, <<>> >>],
       KPair(T("typeBooleanValue"), 1, PutLE(0, 4)),
       KPair(T("typeBooleanValue"), 1, PutLE(1, 4)),
       KPair(T("typeInt8"), 1, <<255>>),
       KPair(T("typeUint8"), 1, <<200>>),
       KPair(T("typeBooleanArray"), 2, PutLE(1, 4) \o PutLE(0, 4)),
       KPair(T("typeInt8Array"), 2, <<255, 1>>),
       KPair(T("typeUint8Array"), 2, <<200, 1>>),
       KPair(T("typeDouble"), 1, <<0, 0, 0, 0, 0, 0, 248, 63>>) >>

\* pairs the decoder is to reject
KMalformed ==
    << [KPair(T("typeUint32"), 1, PutLE(1, 4)) EXCEPT !.size = Forged(-8)],
       [KPair(T("typeUint32"), 1, PutLE(1, 4)) EXCEPT !.nameSz = Forged(0)],
       [KPair(T("typeUint32"), 1, PutLE(1, 4)) EXCEPT !.nameSz = Forged(-1)],
       KPair(T("typeUint32"), -1, PutLE(1, 4)),
       KPair(T("typeUint32"), 65536, PutLE(1, 4)),
       KPair(typeUnknown, 1, PutLE(1, 4)),
       KPair(Len(nvtypes) + 1, 1, PutLE(1, 4)),
       KPair(T("typeHrtime"), 1, PutLE(9, 8)) >>

\* pairs whose declared size ends where the value would start: the value is missing
KTruncated ==
    << KPair(T("typeByte"), 1, <<>>),
       KPair(T("typeString"), 1, <<>>),
       KPair(T("typeUint32"), 1, <<>>),
       KPair(T("typeByteArray"), 1, <<>>),
       KPair(T("typeStringArray"), 1, Repeat(0, 8)) >>

\* the n pairs of seq from its s-th, going round at its end
Window(seq, s, n) == [i \in 1..n |-> seq[((s + i - 2) % Len(seq)) + 1]]

\* the lists the kernel answers with: some pairs of the catalogue, as they are,
\* inside an nvlist, or after a pair of known name and kind
KernelLists ==
    LET first == KPair(T("typeUint32"), 1, PutLE(70000, 4))
    IN  UNION {
          { Window(KCatalogue, s, n),
            <<[KPair(T("typeNvlist"), 1, NvlistHeaderBytes) EXCEPT
                   !.lists = <<Window(KCatalogue, s, n)>>]>>,
            <<first>> \o Window(KCatalogue, s, n) }
          : s \in 1..Len(KCatalogue), n \in 0..MaxPairs }

\* the same with one pair the decoder is to reject
MalformedLists ==
    LET first == KPair(T("typeUint32"), 1, PutLE(70000, 4))
    IN  UNION {
          { <<KMalformed[b]>>,
            <<first, KMalformed[b]>>,
            <<[KPair(T("typeNvlist"), 1, NvlistHeaderBytes) EXCEPT
                   !.lists = << <<KMalformed[b]>> >>]>>,
            <<[KPair(T("typeNvlist"), 1, NvlistHeaderBytes) EXCEPT
                   !.lists = << <<first, KMalformed[b]>> >>]>> }
          : b \in 1..Len(KMalformed) }

\* lists that end with a pair whose value is missing
TruncatedLists ==
    LET first == KPair(T("typeUint32"), 1, PutLE(70000, 4))
    IN  UNION { { <<KTruncated[b]>>, <<first, KTruncated[b]>> }
                : b \in 1..Len(KTruncated) }

\* a field of a record type: Go name, name in the nvlist tag, option of the tag, value
Field(j, opt, x) ==
    [go |-> <<64 + j>>, name |-> IF j % 3 = 0 THEN <<>> ELSE NameAt(j), opt |-> opt,
     x |-> x]

Slice(ek, es) == V("slice", [ek |-> ek, es |-> es])

\* values of the kinds callers put in records, each with an option of its tag
FCatalogue ==
    << <<"", V("int8", -1)>>,
       <<"", V("uint8", 200)>>,
       <<"", V("int16", -2)>>,
       <<"omitempty", V("uint16", 513)>>,
       <<"", V("int32", -3)>>,
       <<"", V("uint32", 0)>>,
       <<"omitempty", V("uint32", 0)>>,
       <<"ro", V("uint32", 9)>>,
       <<"", V("int64", -4)>>,
       <<"", V("uint64", 5)>>,
       <<"", V("float64", <<0, 0, 0, 0, 0, 0, 248, 63>>)>>,
       <<"omitempty", V("float64", Repeat(0, 8))>>,
       <<"", V("bool", TRUE)>>,
       <<"", V("bool", FALSE)>>,
       <<"omitempty", V("bool", TRUE)>>,
       <<"", V("string", <<104, 105>>)>>,
       <<"", V("string", <<>>)>>,
       <<"omitempty", V("string", <<>>)>>,
       <<"", Slice("uint8", <<V("uint8", 1), V("uint8", 2), V("uint8", 3)>>)>>,
       <<"", Slice("int32", <<V("int32", -1), V("int32", 2)>>)>>,
       <<"omitempty", Slice("uint64", <<>>)>>,
       <<"", Slice("uint64", <<>>)>>,
       <<"", Slice("string", <<V("string", <<120>>), V("string", <<121, 122>>)>>)>>,
       <<"", Slice("bool", <<V("bool", TRUE), V("bool", FALSE)>>)>>,
       <<"", V("struct", <<Field(1, "", V("uint16", 1)), Field(2, "", V("string", <<120>>))>>)>>,
       <<"omitempty", V("struct", <<Field(1, "", V("uint16", 0))>>)>>,
       <<"", V("map", <<[n |-> NameAt(1), x |-> V("uint64", 5)]>>)>>,
       <<"omitempty", V("map", <<>>)>>,
       <<"", V("map", <<>>)>>,
       <<"", Invalid>>,
       <<"omitempty", Invalid>>,
       <<"", V("int", 3)>>,
       <<"", V("struct", <<Field(1, "", V("int", 3))>>)>>,
       <<"", Slice("float64", <<>>)>> >>

\* a record with the n catalogue values from the s-th as its fields
Record(s, n) ==
    V("struct", [j \in 1..n |-> Field(j, Window(FCatalogue, s, n)[j][1],
                                       Window(FCatalogue, s, n)[j][2])])

\* the entries of a map with the n catalogue values from the s-th
RECURSIVE Entries(_, _)
Entries(vals, j) ==
    IF j > Len(vals) THEN <<>>
    ELSE SetMapIndex(Entries(vals, j + 1), NameAt(j), vals[j][2])

\* a map with one entry
Entry(name, x) == V("map", <<[n |-> name, x |-> x]>>)

\* a name of n bytes
LongName(n) == [i \in 1..n |-> 98]

\* values at the edges of what a list can hold: names with a null byte, names
\* around the longest an int16 can count with their terminator, a string with a
\* null byte, a map whose keys are not strings
EdgeCatalogue ==
    { Entry(<<97, 0, 98>>, V("uint32", 9)),
      Entry(<<0>>, V("string", <<104, 105>>)),
      Entry(LongName(MaxInt16 - 2), V("uint32", 9)),
      Entry(LongName(MaxInt16 - 1), V("uint32", 9)),
      Entry(LongName(MaxInt16), V("uint32", 9)),
      Entry(NameAt(2), V("string", <<104, 0, 105>>)),
      Entry(NameAt(2), Slice("string", <<V("string", <<120, 0>>), V("string", <<121>>)>>)),
      V("intmap", <<[n |-> 1, x |-> V("uint32", 9)]>>),
      V("intmap", <<>>) }

\* the same, and the same inside a map and inside a record
EdgeValues ==
    EdgeCatalogue
    \cup { Entry(NameAt(1), x) : x \in EdgeCatalogue }
    \cup { V("struct", <<Field(1, "", x), Field(2, "", V("uint32", 9))>>)
           : x \in EdgeCatalogue }

\* the values callers marshal: records, records inside a record, generic maps
GoValues ==
    UNION { { Record(s, n),
              V("struct", <<Field(1, "", Record(s, n)), Field(2, "", V("uint32", 9))>>),
              V("map", Entries(Window(FCatalogue, s, n), 1)) }
            : s \in 1..Len(FCatalogue), n \in 0..MaxFields }
    \cup EdgeValues

\* a record like PropWithSource: a field of type interface{} and a string
AnyRecord == V("struct", <<Field(1, "", V("any", Invalid)), Field(2, "", V("string", <<>>))>>)

\* record types a caller decodes a kernel list into: one with the names and kinds
\* of a list's first two pairs when they are a uint32 and a uint64, one with a
\* name no pair has, one with a field of type interface{}, one with a record as
\* the field named as a list's first pair
TypedTargets ==
    { V("struct", <<Field(1, "", V("uint32", 0)), Field(2, "", V("uint64", 0))>>),
      V("struct", <<Field(9, "", V("uint32", 0))>>),
      AnyRecord,
      V("struct", <<Field(1, "", V("struct", <<Field(1, "", V("uint32", 0))>>))>>) }

\* the response sinks: a pointer to an empty interface, a generic map, a record,
\* a map of records (as DatasetPropsWithSource)
Targets ==
    {V("iface", 0), V("map", <<>>), V("tmap", [elem |-> AnyRecord, es |-> <<>>])}
    \cup TypedTargets

----------------------------------------------------------------------------
(* nvlist codec: Marshal and Unmarshal calls *)

\* calls of one run
MaxCalls == 3

CodecInit ==
    /\ calls = <<>>
    /\ \/ /\ codecPc = "value"
          /\ goVal \in GoValues
          /\ kernelList = <<>>
          /\ wire = <<>>
          /\ target = Invalid
       \/ /\ codecPc = "buffer"
          /\ goVal = Invalid
          /\ kernelList \in KernelLists \cup MalformedLists \cup TruncatedLists
          /\ wire = KBuf(kernelList)
          /\ target \in Targets
       \* the buffer is nil: the file the test reads it from is not there
       \/ /\ codecPc = "buffer"
          /\ goVal = Invalid
          /\ kernelList = <<>>
          /\ wire = <<>>
          /\ target \in Targets

\* the sink a caller decodes Marshal's output into: a fresh record of the type
\* marshalled, or a pointer to an empty interface
FreshTarget(val) == IF val.k = "struct" THEN ZeroOf(val) ELSE V("iface", 0)

\* the orders MapKeys can return the entries of a map in: all of them
RECURSIVE MapKeys(_)
MapKeys(es) ==
    IF es = <<>> THEN {<<>>}
    ELSE UNION { { <<es[i]>> \o rest
                   : rest \in MapKeys(SubSeq(es, 1, i - 1) \o SubSeq(es, i + 1, Len(es))) }
                 : i \in 1..Len(es) }

RECURSIVE Iterations(_)
RECURSIVE IterationsOfAll(_)

\* the sequences that hold, for every value of xs, one of its iterations
IterationsOfAll(xs) ==
    IF xs = <<>> THEN {<<>>}
    ELSE { <<h>> \o t : h \in Iterations(Head(xs)), t \in IterationsOfAll(Tail(xs)) }

\* x with the entries of each of its maps in an order one call of writeNvPairs can
\* iterate them in; every map is ordered on its own
Iterations(x) ==
    CASE x.k = "map" ->
            UNION { { V("map", es)
                      : es \in MapKeys([j \in 1..Len(x.v) |-> [n |-> x.v[j].n, x |-> a[j]]]) }
                    : a \in IterationsOfAll([j \in 1..Len(x.v) |-> x.v[j].x]) }
      [] x.k = "struct" ->
            { V("struct", [j \in 1..Len(x.v) |-> [x.v[j] EXCEPT !.x = a[j]]])
              : a \in IterationsOfAll([j \in 1..Len(x.v) |-> x.v[j].x]) }
      [] x.k = "slice" ->
            IF x.v.ek \in {"map", "struct"}
            THEN { V("slice", [ek |-> x.v.ek, es |-> a]) : a \in IterationsOfAll(x.v.es) }
            ELSE {x}
      [] x.k = "tmap" ->
            UNION { { V("tmap", [elem |-> x.v.elem, es |-> es])
                      : es \in MapKeys([j \in 1..Len(x.v.es) |->
                                          [n |-> x.v.es[j].n, x |-> a[j]]]) }
                    : a \in IterationsOfAll([j \in 1..Len(x.v.es) |-> x.v.es[j].x]) }
      [] x.k = "any" -> { V("any", a) : a \in Iterations(x.v) }
      [] OTHER -> {x}

\* a caller marshals goVal
MarshalCall ==
    LET returns(m) ==
            /\ calls' = Append(calls, [op |-> "Marshal", val |-> goVal, buf |-> m.buf,
                                       target |-> Invalid, err |-> m.err, out |-> Invalid,
                                       log |-> m.log])
            /\ wire' = m.buf
            /\ target' = FreshTarget(goVal)
            /\ codecPc' = IF m.err = Nil THEN "buffer" ELSE "done"
    IN  /\ codecPc = "value"
        /\ \E val \in Iterations(goVal) : returns(Marshal(val))
        /\ UNCHANGED <<goVal, kernelList, outsideCodec>>

\* a caller unmarshals wire into target; whatever Unmarshal returned, what the
\* target then holds may be marshalled
UnmarshalCall ==
    LET returns(u) ==
            /\ calls' = Append(calls, [op |-> "Unmarshal", val |-> Invalid, buf |-> wire,
                                       target |-> target, err |-> u.err, out |-> u.v,
                                       log |-> <<>>])
            /\ goVal' = u.v
            /\ codecPc' = IF u.err # Panic /\ Len(calls) + 1 < MaxCalls THEN "value"
                          ELSE "done"
    IN  /\ codecPc = "buffer"
        /\ returns(Unmarshal(wire, target))
        /\ UNCHANGED <<wire, target, kernelList, outsideCodec>>

CodecNext ==
    \/ MarshalCall
    \/ UnmarshalCall

----------------------------------------------------------------------------
(* The operations facade: the functions of the package that end in one call of
   the dispatcher, and the kernel's side of the pool they act on *)

\* the errno the kernel ends a listing with
ESRCH == "ESRCH"
EEXIST == "EEXIST"
EBUSY == "EBUSY"
EXDEV == "EXDEV"
ErrNullByte == "String contains null byte, this is unsupported by ZFS"
ErrDuplicateSnapshot == "duplicate snapshot name"
\* size of the record's value field: char zc_value[MAXPATHLEN * 2]
ValueFieldLen == 8192

\* most children of the pool
MaxChildren == 2
\* most calls that change the pool a caller makes between its listing calls
MaxEdits == 2

FacadeOps ==
    {"DatasetListNext", "SnapshotListNext", "PoolCreate", "PoolDestroy", "PoolConfigs",
     "PoolImport", "PoolExport", "Promote", "Clone", "Create", "Snapshot",
     "DestroySnapshots", "Bookmark", "Rollback", "SetProp", "InheritProp",
     "GetSpaceWritten", "Rename", "Destroy", "SendSpace", "PoolGetProps",
     "ObjsetZPLProps", "ObjsetStats", "PauseScan", "StartStopScan", "RegenerateGUID"}
\* the operations that pass a secondary name in the record's value field
ValueOps == {"InheritProp", "GetSpaceWritten", "Rename"}
\* the operations a caller changes the pool with between two listing calls
EditOps == {"Create", "Destroy", "Rename"}
\* the operations that hand a map of error numbers as the response sink
ErrListOps == {"Clone", "Create", "Snapshot", "DestroySnapshots", "Bookmark", "SetProp"}

\* "target", "Target"
TargetKey == <<116, 97, 114, 103, 101, 116>>
TargetGoName == <<84, 97, 114, 103, 101, 116>>

\* the pool: "t"
PoolName == <<116>>
\* the i-th dataset a pool can hold, "t/a" for the first
ChildName(i) == <<116, 47, 96 + i>>
ChildNames == {ChildName(i) : i \in 1..MaxChildren}
\* a snapshot of the first: "t/a@s"
OriginSnapshot == <<116, 47, 97, 64, 115>>

\* the names of pools and datasets callers pass: "t", and names around the size of
\* the record's name field
TargetNames == {PoolName, LongName(NameFieldLen - 1), LongName(NameFieldLen)}
\* the secondary names callers pass: "s", one with a null byte, and names around
\* the size of the record's value field
SecondaryNames ==
    {<<115>>, <<115, 0, 120>>, LongName(ValueFieldLen - 1), LongName(ValueFieldLen)}
\* the snapshots callers roll back to: the latest (""), "t@s"
RollbackTargets == {<<>>, <<116, 64, 115>>}

\* a struct field with its Go name, the name in its tag, the option of its tag
Tagged(go, name, opt, x) == [go |-> go, name |-> name, opt |-> opt, x |-> x]

\* a value of a map type other than map[string]interface{}: the zero value of its
\* element type and its entries
MapOf(elem, es) == V("tmap", [elem |-> elem, es |-> es])

PropWithSource ==
    V("struct", <<Tagged(<<86, 97, 108, 117, 101>>, <<118, 97, 108, 117, 101>>, "", V("any", Invalid)),
                  Tagged(<<83, 111, 117, 114, 99, 101>>, <<115, 111, 117, 114, 99, 101>>, "", V("string", <<>>))>>)
\* make(DatasetPropsWithSource)
DatasetPropsWithSource == MapOf(PropWithSource, <<>>)

\* &DatasetProps{"mountpoint": "legacy"}
LegacyProps == Entry(<<109, 111, 117, 110, 116, 112, 111, 105, 110, 116>>, V("string", <<108, 101, 103, 97, 99, 121>>))

\* VDev{Type: type, Path: path, Children: children}
VDev(type, path, children) ==
    V("struct",
      <<Tagged(<<73, 115, 76, 111, 103>>, <<105, 115, 95, 108, 111, 103>>, "", V("uint64", 0)),
        Tagged(<<68, 84, 76>>, <<68, 84, 76>>, "omitempty", V("uint64", 0)),
        Tagged(<<65, 108, 105, 103, 110, 109, 101, 110, 116, 83, 104, 105, 102, 116>>, <<97, 115, 104, 105, 102, 116>>, "omitempty", V("uint64", 0)),
        Tagged(<<65, 108, 108, 111, 99, 97, 116, 97, 98, 108, 101, 67, 97, 112, 97, 99, 105, 116, 121>>, <<97, 115, 105, 122, 101>>, "omitempty", V("uint64", 0)),
        Tagged(<<71, 85, 73, 68>>, <<103, 117, 105, 100>>, "omitempty", V("uint64", 0)),
        Tagged(<<73, 68>>, <<105, 100>>, "omitempty", V("uint64", 0)),
        Tagged(<<80, 97, 116, 104>>, <<112, 97, 116, 104>>, "", V("string", path)),
        Tagged(<<84, 121, 112, 101>>, <<116, 121, 112, 101>>, "", V("string", type)),
        Tagged(<<67, 104, 105, 108, 100, 114, 101, 110>>, <<99, 104, 105, 108, 100, 114, 101, 110>>, "omitempty", Slice("struct", children)),
        Tagged(<<76, 50, 67, 97, 99, 104, 101, 67, 104, 105, 108, 100, 114, 101, 110>>, <<108, 50, 99, 97, 99, 104, 101>>, "omitempty", Slice("struct", <<>>)),
        Tagged(<<83, 112, 97, 114, 101, 115, 67, 104, 105, 108, 100, 114, 101, 110>>, <<115, 112, 97, 114, 101, 115>>, "omitempty", Slice("struct", <<>>))>>)

\* SendSpaceOptions{From: from, Compress: compress}
SendSpaceOptions(from, compress) ==
    V("struct",
      <<Tagged(<<70, 114, 111, 109>>, <<102, 114, 111, 109>>, "omitempty", V("string", from)),
        Tagged(<<76, 97, 114, 103, 101, 66, 108, 111, 99, 107, 115>>, <<108, 97, 114, 103, 101, 98, 108, 111, 99, 107, 111, 107>>, "", V("bool", FALSE)),
        Tagged(<<69, 109, 98, 101, 100>>, <<101, 109, 98, 101, 100, 111, 107>>, "", V("bool", FALSE)),
        Tagged(<<67, 111, 109, 112, 114, 101, 115, 115>>, <<99, 111, 109, 112, 114, 101, 115, 115, 111, 107>>, "", V("bool", compress))>>)

\* spaceRes of SendSpace
SpaceRes == V("struct", <<Tagged(<<83, 112, 97, 99, 101>>, <<115, 112, 97, 99, 101>>, "", V("uint64", 0))>>)

\* a pool config with the pool's guid
PoolConfig(guid) == Entry(<<112, 111, 111, 108, 95, 103, 117, 105, 100>>, guid)

\* the first argument of an operation; a listing is of the pool "t"; PoolConfigs
\* and Bookmark pass the empty name themselves
FacadeNames(op) ==
    CASE op = "DatasetListNext" -> {PoolName, LongName(NameFieldLen)}
      [] op \in {"PoolConfigs", "Bookmark"} -> {<<>>}
      [] op \in EditOps \cup {"Clone"} -> TargetNames \cup ChildNames
      [] OTHER -> TargetNames

\* the string argument of an operation
FacadeArgs(op) ==
    CASE op = "Rename" ->
            SecondaryNames \cup ChildNames \cup {ChildName(MaxChildren) \o <<0, 120>>}
      [] op \in ValueOps -> SecondaryNames
      [] op = "Rollback" -> RollbackTargets
      [] op = "Clone" -> {OriginSnapshot, <<116, 0>>}
      [] OTHER -> {<<>>}

\* the boolean argument of an operation (for PoolExport: force)
FacadeFlags(op) ==
    IF op \in {"InheritProp", "Rename", "PoolExport", "Destroy", "DestroySnapshots"}
    THEN BOOLEAN ELSE {FALSE}

\* the numeric argument of an operation: a cursor, a PropSource, a ScanType, an
\* ObjectType (DMU_OST_ZFS for Create, DMU_OST_ANY for Destroy)
FacadeNums(op) ==
    CASE op = "SetProp" -> {1, 8}
      [] op = "StartStopScan" -> {0, 1}
      [] op = "Create" -> {2}
      [] op = "Destroy" -> {5}
      [] OTHER -> {0}

\* the other argument of an operation: props, names, hardForce, the bookmarks,
\* the response sink, the vdev tree, the pool config, the options
FacadeExtras(op) ==
    CASE op = "Create" -> {Invalid, LegacyProps}
      [] op = "Snapshot" ->
            {Slice("string", <<V("string", OriginSnapshot)>>),
             Slice("string", <<V("string", OriginSnapshot), V("string", <<116, 47, 98, 64, 115>>)>>),
             Slice("string", <<V("string", OriginSnapshot), V("string", OriginSnapshot)>>)}
      [] op = "DestroySnapshots" ->
            {Slice("string", <<V("string", OriginSnapshot)>>),
             Slice("string", <<V("string", OriginSnapshot), V("string", OriginSnapshot)>>)}
      [] op = "SetProp" -> {V("nilmap", <<>>), LegacyProps}
      [] op = "PoolExport" -> {V("bool", FALSE), V("bool", TRUE)}
      [] op = "Bookmark" ->
            {MapOf(V("string", <<>>),
                   <<[n |-> OriginSnapshot, x |-> V("string", <<116, 47, 97, 35, 98>>)]>>)}
      [] op = "SnapshotListNext" -> {Invalid, DatasetPropsWithSource}
      [] op = "PoolCreate" ->
            {VDev(<<114, 111, 111, 116>>, <<>>, <<VDev(<<102, 105, 108, 101>>, <<47, 102>>, <<>>)>>)}
      [] op = "PoolImport" ->
            {PoolConfig(V("uint64", 7)), PoolConfig(V("string", <<55>>)),
             V("map", <<>>)}
      [] op = "SendSpace" ->
            {SendSpaceOptions(<<>>, TRUE), SendSpaceOptions(<<116, 47, 97, 64, 114>>, FALSE)}
      [] OTHER -> {Invalid}

\* the arguments of a call of an operation
FacadeInputs(op) ==
    [name : FacadeNames(op), arg : FacadeArgs(op), flag : FacadeFlags(op),
     num : FacadeNums(op), extra : FacadeExtras(op)]

\* the arguments of the calls a caller changes the pool with while it lists it:
\* it creates a dataset the pool does not hold, destroys one it holds, renames
\* one it holds to one it does not hold
EditInputs(op, children) ==
    LET held == {ChildName(i) : i \in children}
    IN  [name : IF op = "Create" THEN ChildNames \ held ELSE held,
         arg : IF op = "Rename" THEN ChildNames \ held ELSE {<<>>},
         flag : {FALSE}, num : FacadeNums(op),
         extra : IF op = "Create" THEN {LegacyProps} ELSE {Invalid}]

\* the cursor the kernel hands out with the i-th dataset: opaque to the caller
KernelCursor(i) == 16 * i + 3
\* what the kernel writes into the cookie for ZFS_IOC_SPACE_WRITTEN on a dataset
KernelSpace(name) == 4096 * Len(name)
\* the snapshot the kernel rolls back to when asked for the latest: "t@z"
LatestSnapshot == <<116, 64, 122>>

\* a new Cmd: the fields the operations use, the byte fields as the bytes before
\* the zeroes that fill them
ZeroCmd ==
    [name |-> <<>>, value |-> <<>>, string |-> <<>>, cookie |-> 0, guid |-> 0,
     objset_type |-> 0, flags |-> 0]

delimitedBufToString(buf) == UpToNull(buf)

\* stringToDelimitedBuf into a zeroed field of size bytes
stringToDelimitedBuf(str, size) ==
    IF Len(str) > size - 1 THEN [err |-> ErrNameTooLong, buf |-> <<>>]
    ELSE IF HasNull(str) THEN [err |-> ErrNullByte, buf |-> UpToNull(str)]
    ELSE [err |-> Nil, buf |-> str]

\* the entry of a map[string]interface{} under a key: a nil interface when there
\* is none
RECURSIVE MapIndex(_, _)
MapIndex(es, name) ==
    IF es = <<>> THEN Invalid
    ELSE IF Head(es).n = name THEN Head(es).x
    ELSE MapIndex(Tail(es), name)

\* the set of snapshots Snapshot and DestroySnapshots build from names: the error
\* of a name given twice, else the map
RECURSIVE SnapSet(_, _)
SnapSet(names, es) ==
    IF names = <<>> THEN [err |-> Nil, snaps |-> MapOf(V("bool", FALSE), es)]
    ELSE IF \E i \in 1..Len(es) : es[i].n = Head(names).v
    THEN [err |-> ErrDuplicateSnapshot, snaps |-> MapOf(V("bool", FALSE), es)]
    ELSE SnapSet(Tail(names), SetMapIndex(es, Head(names).v, V("bool", TRUE)))

\* the command record an operation builds, and the error it returns (or its
\* panic) before it calls the dispatcher
FacadeCmd(op, arg, flag, num, extra) ==
    LET bit(b) == IF b THEN 1 ELSE 0
        plain(cmd) == [err |-> Nil, cmd |-> cmd]
        filled(s) ==
            [err |-> IF op = "InheritProp" THEN s.err ELSE Nil,
             cmd |-> [ZeroCmd EXCEPT !.cookie = IF op = "GetSpaceWritten" THEN 0
                                                 ELSE bit(flag),
                                     !.value = s.buf]]
        guid(x) == IF x.k = "uint64" THEN plain([ZeroCmd EXCEPT !.guid = x.v])
                   ELSE [err |-> Panic, cmd |-> ZeroCmd]
    IN  CASE op \in {"DatasetListNext", "SnapshotListNext", "SetProp", "StartStopScan"} ->
                plain([ZeroCmd EXCEPT !.cookie = num])
          [] op \in ValueOps -> filled(stringToDelimitedBuf(arg, ValueFieldLen))
          [] op = "PoolExport" ->
                plain([ZeroCmd EXCEPT !.cookie = bit(flag), !.guid = bit(extra.v)])
          [] op = "Destroy" -> plain([ZeroCmd EXCEPT !.objset_type = num])
          [] op = "PauseScan" -> plain([ZeroCmd EXCEPT !.flags = 1])
          [] op \in {"Snapshot", "DestroySnapshots"} ->
                [err |-> SnapSet(extra.v.es, <<>>).err, cmd |-> ZeroCmd]
          [] op = "PoolImport" -> guid(MapIndex(extra.v, <<112, 111, 111, 108, 95, 103, 117, 105, 100>>))
          [] OTHER -> plain(ZeroCmd)

\* Rollback's req and res
RollbackReq(snap) ==
    V("struct", <<Tagged(TargetGoName, TargetKey, "omitempty", V("string", snap))>>)
RollbackRes ==
    V("struct", <<Tagged(TargetGoName, TargetKey, "", V("string", <<>>))>>)

\* a record handed to an interface parameter by value: a copy whose fields cannot be set
ByValue(rec) == V("rostruct", rec.v)

\* the request an operation hands to the dispatcher, nil when it hands none
FacadeRequest(op, arg, flag, num, extra) ==
    CASE op = "Rollback" -> RollbackReq(arg)
      [] op = "Create" ->
            V("struct", <<Tagged(<<84, 121, 112, 101>>, <<116, 121, 112, 101>>, "", V("int32", num)),
                          Tagged(<<80, 114, 111, 112, 115>>, <<112, 114, 111, 112, 115>>, "", extra)>>)
      [] op = "Clone" ->
            V("struct", <<Tagged(<<79, 114, 105, 103, 105, 110>>, <<111, 114, 105, 103, 105, 110>>, "", V("string", arg)),
                          Tagged(<<80, 114, 111, 112, 115>>, <<112, 114, 111, 112, 115>>, "", extra)>>)
      [] op = "Snapshot" ->
            V("struct", <<Tagged(<<83, 110, 97, 112, 115>>, <<115, 110, 97, 112, 115>>, "", SnapSet(extra.v.es, <<>>).snaps),
                          Tagged(<<80, 114, 111, 112, 115>>, <<112, 114, 111, 112, 115>>, "", Invalid)>>)
      [] op = "DestroySnapshots" ->
            V("struct", <<Tagged(<<83, 110, 97, 112, 115>>, <<115, 110, 97, 112, 115>>, "", SnapSet(extra.v.es, <<>>).snaps),
                          Tagged(<<68, 101, 102, 101, 114>>, <<100, 101, 102, 101, 114>>, "", V("bool", flag))>>)
      [] op \in {"Bookmark", "SetProp", "SendSpace"} -> extra
      [] op = "PoolCreate" -> MapOf(V("uint64", 0), <<>>)
      [] op = "PoolImport" -> V("nilmap", <<>>)
      [] OTHER -> Invalid

\* the config an operation hands to the dispatcher, nil when it hands none
FacadeConfig(op, extra) ==
    IF op \in {"PoolCreate", "PoolImport"} THEN extra ELSE Invalid

\* the response sink an operation hands to the dispatcher, nil when it hands none
FacadeSink(op, extra) ==
    CASE op \in {"DatasetListNext", "ObjsetStats"} -> DatasetPropsWithSource
      [] op = "SnapshotListNext" -> extra
      [] op = "Rollback" -> ByValue(RollbackRes)
      [] op = "SetProp" -> MapOf(V("int64", 0), <<>>)
      [] op \in ErrListOps -> MapOf(V("int32", 0), <<>>)
      [] op \in {"PoolConfigs", "PoolImport"} -> V("map", <<>>)
      [] op \in {"PoolGetProps", "ObjsetZPLProps"} -> V("iface", 0)
      [] op = "SendSpace" -> SpaceRes
      [] OTHER -> Invalid

\* the control code an operation hands to the dispatcher
FacadeIoctl(op) ==
    CASE op = "DatasetListNext" -> "ZFS_IOC_DATASET_LIST_NEXT"
      [] op = "SnapshotListNext" -> "ZFS_IOC_SNAPSHOT_LIST_NEXT"
      [] op = "PoolCreate" -> "ZFS_IOC_POOL_CREATE"
      [] op = "PoolDestroy" -> "ZFS_IOC_POOL_DESTROY"
      [] op = "PoolConfigs" -> "ZFS_IOC_POOL_CONFIGS"
      [] op = "PoolImport" -> "ZFS_IOC_POOL_IMPORT"
      [] op = "PoolExport" -> "ZFS_IOC_POOL_EXPORT"
      [] op = "Promote" -> "ZFS_IOC_PROMOTE"
      [] op \in {"Clone", "DestroySnapshots"} -> "ZFS_IOC_CLONE"
      [] op = "Create" -> "ZFS_IOC_CREATE"
      [] op = "Snapshot" -> "ZFS_IOC_SNAPSHOT"
      [] op = "Bookmark" -> "ZFS_IOC_BOOKMARK"
      [] op = "Rollback" -> "ZFS_IOC_ROLLBACK"
      [] op = "SetProp" -> "ZFS_IOC_SET_PROP"
      [] op = "InheritProp" -> "ZFS_IOC_INHERIT_PROP"
      [] op = "GetSpaceWritten" -> "ZFS_IOC_SPACE_WRITTEN"
      [] op = "Rename" -> "ZFS_IOC_RENAME"
      [] op = "Destroy" -> "ZFS_IOC_DESTROY"
      [] op = "SendSpace" -> "ZFS_IOC_SEND_SPACE"
      [] op = "PoolGetProps" -> "ZFS_IOC_POOL_GET_PROPS"
      [] op = "ObjsetZPLProps" -> "ZFS_IOC_OBJSET_ZPLPROPS"
      [] op = "ObjsetStats" -> "ZFS_IOC_OBJSET_STATS"
      [] op \in {"PauseScan", "StartStopScan"} -> "ZFS_IOC_POOL_SCAN"
      [] op = "RegenerateGUID" -> "ZFS_IOC_POOL_REGUID"

\* unix.Errno(n) for the numbers the kernel leaves in the cookie
Errno(n) == IF n = 5 THEN EIO ELSE IF n = 2 THEN ENOENT ELSE "errno"

DatasetListNext_SameCursor(cmd, err, cursor) ==
    [str |-> delimitedBufToString(cmd.name), num |-> cursor, err |-> err]
\* what DatasetListNext returns: name and cursor
DatasetListNext_Return(cmd, err, cursor) ==
    IF err # Nil THEN [str |-> <<>>, num |-> 0, err |-> err]
    ELSE [str |-> delimitedBufToString(cmd.name), num |-> cmd.cookie, err |-> Nil]

\* what an operation returns after the dispatcher: a string, a number, the error;
\* sink is the response sink as the dispatcher left it
FacadeReturn(op, cmd, err, cursor, sink) ==
    LET only(e) == [str |-> <<>>, num |-> 0, err |-> e]
    IN  CASE op = "DatasetListNext" -> DatasetListNext_Return(cmd, err, cursor)
          [] op = "SnapshotListNext" ->
                IF err # Nil THEN only(err)
                ELSE [str |-> delimitedBufToString(cmd.name), num |-> cmd.cookie,
                      err |-> Nil]
          [] op = "Rollback" -> [str |-> RollbackRes.v[1].x.v, num |-> 0, err |-> err]
          [] op = "Promote" ->
                [str |-> delimitedBufToString(cmd.string), num |-> 0, err |-> err]
          [] op = "GetSpaceWritten" ->
                [str |-> <<>>, num |-> IF err # Nil THEN 0 ELSE cmd.cookie, err |-> err]
          [] op = "SendSpace" ->
                [str |-> <<>>, num |-> IF err # Nil THEN 0 ELSE sink.v[1].x.v, err |-> err]
          [] op = "PoolImport" ->
                only(IF err # Panic /\ cmd.cookie # 0 THEN Errno(cmd.cookie) ELSE err)
          [] OTHER -> only(err)

\* the value an operation returns next to them: the response sink for the
\* operations that return it, nil from PoolImport when the cookie is set
FacadeValue(op, cmd, err, sink) ==
    IF op = "PoolImport" /\ err # Panic /\ cmd.cookie # 0 THEN Invalid ELSE sink

NoCall ==
    [pc |-> "idle", op |-> "none", name |-> <<>>, arg |-> <<>>, flag |-> FALSE,
     num |-> 0, extra |-> Invalid, cmd |-> ZeroCmd, copy |-> ZeroCmd, src |-> <<>>,
     conf |-> <<>>, sink |-> Invalid, dstSize |-> 0]

\* a caller of one operation, or of DatasetListNext over and over with calls that
\* change the pool in between; the pool holds some of the datasets it can hold
FacadeInit ==
    /\ fsCaller \in [op : FacadeOps, cursor : {0}, over : {FALSE}, edits : {0},
                     fresh : {TRUE}]
    /\ fsCall = NoCall
    /\ \E children \in SUBSET (1..MaxChildren) :
          fsKern = [children |-> children, issued |-> <<>>]
    /\ fsRets = <<>>

\* the caller after a call returned: a listing goes on from the cursor returned;
\* after the error that ends it the caller lists again once it has changed the
\* pool; a caller of another operation is done, and so is one whose call panicked
CallerAfter(caller, op, ret) ==
    IF ret.err = Panic THEN [caller EXCEPT !.over = TRUE]
    ELSE IF op = "DatasetListNext"
    THEN IF ret.err = Nil THEN [caller EXCEPT !.cursor = ret.num]
         ELSE [caller EXCEPT !.cursor = 0, !.fresh = FALSE,
                             !.over = caller.edits >= MaxEdits]
    ELSE IF caller.op = "DatasetListNext"
    THEN [caller EXCEPT !.edits = @ + 1, !.fresh = TRUE]
    ELSE [caller EXCEPT !.over = TRUE]

\* the operation returns: its results, and what the caller does with them
FacadeReturns(c, cmd, err, sink) ==
    LET goesOn(ret) ==
            /\ fsRets' = Append(fsRets, [op |-> c.op, name |-> c.name, arg |-> c.arg,
                                         cursor |-> c.num,
                                         str |-> ret.str, num |-> ret.num, err |-> ret.err,
                                         decoded |-> FacadeValue(c.op, cmd, err, sink),
                                         issued |-> Len(fsKern'.issued),
                                         children |-> fsKern'.children])
            /\ fsCaller' = CallerAfter(fsCaller, c.op, ret)
    IN  /\ goesOn(FacadeReturn(c.op, cmd, err, c.num, sink))
        /\ fsCall' = NoCall

\* the dispatcher's loop up to the control call: the working copy with the name
FacadeAttempt(c) ==
    IF NameFits(Len(c.name), NameFieldLen)
    THEN /\ fsCall' = [c EXCEPT !.pc = "syscall", !.copy = [c.cmd EXCEPT !.name = c.name]]
         /\ UNCHANGED <<fsCaller, fsRets>>
    ELSE FacadeReturns(c, c.cmd, ErrNameTooLong, c.sink)

\* the operations the caller can call next, each with the arguments it can pass
CallerOps ==
    IF fsCaller.op # "DatasetListNext" THEN {fsCaller.op}
    ELSE (IF fsCaller.cursor # 0 \/ fsCaller.fresh THEN {"DatasetListNext"} ELSE {})
         \cup (IF fsCaller.edits < MaxEdits THEN EditOps ELSE {})
CallerInputs(op) ==
    IF op = "DatasetListNext"
    THEN [name : IF fsRets = <<>> THEN FacadeNames(op) ELSE {PoolName},
          arg : {<<>>}, flag : {FALSE}, num : {fsCaller.cursor}, extra : {Invalid}]
    ELSE IF fsCaller.op = "DatasetListNext" THEN EditInputs(op, fsKern.children)
    ELSE FacadeInputs(op)

\* a caller calls an operation, which runs up to its first control call: the
\* dispatcher marshals the request and the config when it is handed one
FacadeCall ==
    LET marshalled(val) == IF val = Invalid THEN [buf |-> <<>>, err |-> Nil]
                           ELSE Marshal(val)
        started(c, prep, m, conf) ==
            /\ fsKern' = fsKern
            /\ IF prep.err # Nil THEN FacadeReturns(c, prep.cmd, prep.err, c.sink)
               ELSE IF m.err # Nil THEN FacadeReturns(c, prep.cmd, m.err, c.sink)
               ELSE IF conf.err # Nil THEN FacadeReturns(c, prep.cmd, conf.err, c.sink)
               ELSE FacadeAttempt([c EXCEPT !.cmd = prep.cmd, !.src = m.buf,
                                            !.conf = conf.buf,
                                            !.dstSize = InitialDstSize])
        called(op, in, req, conf) ==
            started([NoCall EXCEPT !.op = op, !.name = in.name, !.arg = in.arg,
                                   !.flag = in.flag, !.num = in.num, !.extra = in.extra,
                                   !.sink = FacadeSink(op, in.extra)],
                    FacadeCmd(op, in.arg, in.flag, in.num, in.extra),
                    marshalled(req), marshalled(conf))
    IN  /\ fsCall.pc = "idle"
        /\ ~fsCaller.over
        /\ \E op \in CallerOps : \E in \in CallerInputs(op) :
             \E req \in Iterations(FacadeRequest(op, in.arg, in.flag, in.num, in.extra)),
                conf \in Iterations(FacadeConfig(op, in.extra)) :
                called(op, in, req, conf)
        /\ UNCHANGED outsideFacade

\* the dataset the kernel lists after the one it handed the cookie out with: the
\* first whose cursor is past the cookie, 0 when there is none
NextChild(cookie, children) ==
    LET later == {i \in children : KernelCursor(i) > cookie}
    IN  IF later = {} THEN 0 ELSE CHOOSE i \in later : \A j \in later : i <= j

\* the dataset of the pool with the given name, 0 when the pool can hold none
IndexOfChild(name) ==
    IF \E i \in 1..MaxChildren : ChildName(i) = name
    THEN CHOOSE i \in 1..MaxChildren : ChildName(i) = name
    ELSE 0

\* the properties of a dataset as the kernel packs them:
\* {mountpoint: {source: "t/a", value: "legacy"}, type: {value: 2}}
KernelProps ==
    Marshal(V("map", <<[n |-> <<109, 111, 117, 110, 116, 112, 111, 105, 110, 116>>,
                        x |-> V("map", <<[n |-> <<115, 111, 117, 114, 99, 101>>, x |-> V("string", <<116, 47, 97>>)],
                                         [n |-> <<118, 97, 108, 117, 101>>, x |-> V("string", <<108, 101, 103, 97, 99, 121>>)]>>)],
                       [n |-> <<116, 121, 112, 101>>,
                        x |-> Entry(<<118, 97, 108, 117, 101>>, V("uint64", 2))]>>)).buf

\* the room the kernel asks for the props of the i-th dataset: those of every
\* other dataset take more than the first output buffer
KernelPropsSize(i) == IF i % 2 = 0 THEN InitialDstSize + 1 ELSE InitialDstSize

\* the response of ZFS_IOC_ROLLBACK: {target}
RollbackResponse(snap) == Marshal(Entry(TargetKey, V("string", snap))).buf

\* the output buffer the kernel fills when a control call succeeds: no errors for
\* the calls that list them, the props, the configs of the pools, the space
KernelOut(op) ==
    CASE op \in ErrListOps -> Marshal(V("map", <<>>)).buf
      [] op \in {"PoolGetProps", "ObjsetZPLProps", "ObjsetStats", "SnapshotListNext",
                 "DatasetListNext"} -> KernelProps
      [] op \in {"PoolConfigs", "PoolImport"} ->
            Marshal(Entry(PoolName, PoolConfig(V("uint64", 7)))).buf
      [] op = "SendSpace" -> Marshal(Entry(<<115, 112, 97, 99, 101>>, V("uint64", 4096))).buf
      [] OTHER -> <<>>

\* what the kernel can answer to the control call of c: the errno, the record as
\* it leaves it, the output buffer, the snapshot it rolled back to, the datasets
\* of the pool after the call; a listing moves on to the next dataset before it
\* finds the output buffer too small for its props
KernelAnswers(c, children) ==
    LET i == IndexOfChild(c.copy.name)
        j == IndexOfChild(c.copy.value)
        next == NextChild(c.copy.cookie, children)
        listed == [c.copy EXCEPT !.name = ChildName(next), !.cookie = KernelCursor(next)]
        answer(errno, copy, out, snap, after) ==
            [errno |-> errno, copy |-> copy, out |-> out, target |-> snap,
             children |-> after]
        done(after) == answer(Nil, c.copy, KernelOut(c.op), <<>>, after)
        fails(errno) == answer(errno, c.copy, <<>>, <<>>, children)
        rolledTo == IF c.arg = <<>> THEN LatestSnapshot ELSE c.arg
    IN  CASE c.op = "DatasetListNext" ->
                IF c.copy.name # PoolName THEN {fails(ENOENT)}
                ELSE IF next = 0 THEN {fails(ESRCH)}
                ELSE IF c.dstSize < KernelPropsSize(next)
                THEN {answer(ENOMEM, listed, <<>>, <<>>, children)}
                ELSE {answer(Nil, listed, KernelProps, <<>>, children)}
          [] c.op = "SnapshotListNext" ->
                {answer(Nil, [c.copy EXCEPT !.name = OriginSnapshot,
                                            !.cookie = KernelCursor(1)],
                        KernelProps, <<>>, children),
                 fails(ESRCH)}
          [] c.op \in {"Create", "Clone"} ->
                IF i # 0 /\ i \notin children
                THEN {done(children \cup {i})}
                     \cup (IF c.op = "Clone" THEN {fails(ENOENT)} ELSE {})
                ELSE IF i \in children \/ c.copy.name = PoolName THEN {fails(EEXIST)}
                ELSE {fails(ENOENT)}
          [] c.op = "Destroy" ->
                IF i \in children THEN {done(children \ {i})} ELSE {fails(ENOENT)}
          [] c.op = "Rename" ->
                IF i \notin children
                THEN {fails(IF c.copy.name = PoolName THEN EXDEV ELSE ENOENT)}
                ELSE IF j # 0 /\ j \notin children
                THEN {done((children \ {i}) \cup {j})}
                ELSE {fails(IF j \in children THEN EEXIST ELSE EXDEV)}
          [] c.op \in {"PoolDestroy", "PoolExport"} ->
                IF c.copy.name = PoolName THEN {done({}), fails(EBUSY)}
                ELSE {fails(ENOENT)}
          \* ZFS_IOC_CLONE with a request that names no origin
          [] c.op = "DestroySnapshots" -> {fails(EINVAL)}
          [] c.op = "Promote" ->
                {done(children),
                 answer(EEXIST, [c.copy EXCEPT !.string = OriginSnapshot], <<>>, <<>>,
                        children)}
          [] c.op = "PoolImport" ->
                {done(children),
                 answer(Nil, [c.copy EXCEPT !.cookie = 5], KernelOut(c.op), <<>>, children),
                 fails(ENOENT)}
          [] c.op = "Rollback" ->
                {answer(Nil, c.copy, RollbackResponse(rolledTo), rolledTo, children),
                 fails(ENOMEM), fails(EIO)}
          [] c.op = "GetSpaceWritten" ->
                {answer(Nil, [c.copy EXCEPT !.cookie = KernelSpace(c.copy.name)], <<>>,
                        <<>>, children),
                 fails(ENOENT)}
          [] OTHER -> {done(children), fails(ENOENT)}

\* the kernel executes the control call; the dispatcher goes on to its next
\* control call, or returns to the operation, which returns to its caller
FacadeSyscall ==
    LET c == fsCall
        unmarshalled(ans, u) == FacadeReturns(c, ans.copy, u.err, u.v)
        answered(ans) ==
            /\ fsKern' = [children |-> ans.children,
                          issued |-> Append(fsKern.issued,
                                       [op |-> c.op, ioctl |-> FacadeIoctl(c.op),
                                        name |-> c.name, arg |-> c.arg,
                                        cmd |-> c.copy, dst |-> c.dstSize,
                                        errno |-> ans.errno, wrote |-> ans.copy,
                                        target |-> ans.target])]
            /\ IF Retries(ans.errno)
               THEN IF PastCap(GrowDst(c.dstSize))
                    THEN FacadeReturns(c, c.cmd, ErrBufferTooLarge, c.sink)
                    ELSE FacadeAttempt([c EXCEPT !.dstSize = GrowDst(c.dstSize)])
               ELSE IF Unmarshals(ans.errno, c.sink # Invalid)
               THEN unmarshalled(ans, Unmarshal(ans.out, c.sink))
               ELSE FacadeReturns(c, WriteBack(c.cmd, ans.copy, ans.errno), ans.errno,
                                  c.sink)
    IN  /\ fsCall.pc = "syscall"
        /\ \E ans \in KernelAnswers(fsCall, fsKern.children) : answered(ans)
        /\ UNCHANGED outsideFacade

FacadeNext ==
    \/ FacadeCall
    \/ FacadeSyscall

----------------------------------------------------------------------------
(* Receive *)

\* len(opts.BeginRecord) == 312
BeginRecordLen == 312
\* make(chan []byte, 2)
BeginChanCap == 2
\* most bytes the caller writes after the begin-record
MaxTail == 3
\* largest small Write
MaxSmall == 2

StreamFailed == "receiving stream failed"
Unexpected == "unexpected error when sending into ZFS receive pipe"
NotEnoughData == "Not enough data received for BeginRecord"
BadBeginRecord == "BeginRecord is neither 312 bytes nor empty"
ReceiveErr == "ReceiveError"

\* the buffer sizes the caller passes to Write: small ones, and ones about a begin-record long
WriteSizes == (0..MaxSmall) \cup ((BeginRecordLen - 1)..(BeginRecordLen + MaxSmall))
\* the lengths of opts.BeginRecord the caller passes to Receive
OptsLens == {0, 1, BeginRecordLen - 1, BeginRecordLen}
\* the seeds of the begin-record passed in opts
OptsSeeds == {100}
\* the per-property errors the kernel reports under "errors": none, or EINVAL for "quota"
RecvPropErrors == {<<>>, <<[n |-> <<113, 117, 111, 116, 97>>, x |-> V("int32", 22)]>>}
\* what the control call returns once the kernel has read the stream: the errno, and
\* with success the error_flags and the errors of the output list
RecvOutcomes ==
    {[err |-> Nil, flags |-> 0, errors |-> <<>>]}
    \cup {[err |-> Nil, flags |-> 1, errors |-> es] : es \in RecvPropErrors}
    \cup {[err |-> EIO, flags |-> 0, errors |-> <<>>]}

\* ReceiveError{ReadBytes: readBytes, ErrorFlags: errorFlags, ErrorList: errorList}
ReceiveError(readBytes, errorFlags, errorList) ==
    V("struct",
      <<Tagged(<<82, 101, 97, 100, 66, 121, 116, 101, 115>>, <<114, 101, 97, 100, 95, 98, 121, 116, 101, 115>>, "", V("uint64", readBytes)),
        Tagged(<<69, 114, 114, 111, 114, 70, 108, 97, 103, 115>>, <<101, 114, 114, 111, 114, 95, 102, 108, 97, 103, 115>>, "", V("uint64", errorFlags)),
        Tagged(<<69, 114, 114, 111, 114, 76, 105, 115, 116>>, <<101, 114, 114, 111, 114, 115>>, "", errorList)>>)
\* res := new(ReceiveError): the counters are zero and ErrorList is a nil map
NewReceiveError == ReceiveError(0, 0, V("niltmap", [elem |-> V("int32", 0), es |-> <<>>]))
\* res.ErrorFlags
ErrorFlags(res) == res.v[2].x.v

\* the output list of ZFS_IOC_RECV_NEW for an outcome, after readBytes bytes of stream
RecvResponse(outcome, readBytes) ==
    Marshal(V("map", <<[n |-> <<114, 101, 97, 100, 95, 98, 121, 116, 101, 115>>, x |-> V("uint64", readBytes)],
                       [n |-> <<101, 114, 114, 111, 114, 95, 102, 108, 97, 103, 115>>, x |-> V("uint64", outcome.flags)],
                       [n |-> <<101, 114, 114, 111, 114, 115>>, x |-> V("map", outcome.errors)]>>)).buf

Zeros(n) == [i \in 1..n |-> 0]

\* opts.BeginRecord as the caller passed it
OptsBeginRecord == StreamBytes(recvOpts.seed, recvOpts.len)

RecvInit ==
    /\ recv = [lastError |-> Nil, beginRecord |-> <<>>, beginRecordPointer |-> 0,
               beginRecordChan |-> <<>>, beginClosed |-> FALSE,
               errorChan |-> <<>>, errorClosed |-> FALSE]
    /\ recvPipe = [data |-> <<>>, rOpen |-> FALSE, wOpen |-> FALSE]
    /\ recvTask = [pc |-> "idle", beginRecord |-> <<>>, status |-> Nil,
                   called |-> FALSE, sent |-> 0]
    /\ recvKern = [need |-> 0, outcome |-> [err |-> Nil, flags |-> 0, errors |-> <<>>],
                   got |-> <<>>, req |-> <<>>,
                   res |-> [err |-> Nil, flags |-> 0, errors |-> <<>>]]
    /\ recvCall = [pc |-> "start", pos |-> 0, size |-> 0, pending |-> <<>>, off |-> 0,
                   n |-> 0, ret |-> [n |-> 0, err |-> Nil], op |-> "none",
                   wacRet |-> Nil, wacs |-> 0, forwarded |-> <<>>]
    /\ \E len \in OptsLens, seed \in OptsSeeds, data \in StreamSeeds :
          recvOpts = [len |-> len, seed |-> seed, data |-> data]

\* Receive: beginRecordToReadBytes, or -1 where Receive returns an error
BeginRecordToReadBytes(len) ==
    IF len = BeginRecordLen THEN 0 ELSE IF len = 0 THEN BeginRecordLen ELSE -1

\* Receive: the stream, the pipe and the consumer goroutine
ReceiveCall ==
    /\ recvCall.pc = "start"
    /\ LET toRead == BeginRecordToReadBytes(recvOpts.len) IN
       IF toRead < 0
       THEN /\ recvCall' = [recvCall EXCEPT !.pc = "rejected", !.op = "Receive",
                                            !.ret = [n |-> 0, err |-> BadBeginRecord]]
            /\ UNCHANGED <<recv, recvPipe, recvTask>>
       ELSE \E err \in PipeResults :
               IF err # Nil
               THEN /\ recvCall' = [recvCall EXCEPT !.pc = "rejected", !.op = "Receive",
                                                    !.ret = [n |-> 0, err |-> err]]
                    /\ UNCHANGED <<recv, recvPipe, recvTask>>
               ELSE /\ recv' = [recv EXCEPT !.beginRecord = Zeros(toRead)]
                    /\ recvPipe' = [data |-> <<>>, rOpen |-> TRUE, wOpen |-> TRUE]
                    /\ recvTask' = [recvTask EXCEPT !.pc = "recv_begin",
                                                    !.beginRecord = OptsBeginRecord]
                    /\ recvCall' = [recvCall EXCEPT !.pc = "idle", !.op = "Receive"]
    /\ UNCHANGED <<recvKern, recvOpts, outsideRecv>>

\* if r.lastError != nil
HasFailed_Never(lastError) == FALSE
HasFailed(lastError) == lastError # Nil

\* beginRecordBytes: how many bytes of buf go into the begin-record
BeginRecordBytes(remaining, len) ==
    IF remaining > 0 THEN Min(remaining, len) ELSE 0

\* buf[beginRecordBytes:], the part written to the pipe
PipePart_Whole(buf, beginRecordBytes) == buf
PipePart(buf, beginRecordBytes) == Drop(buf, beginRecordBytes)

\* the error Write keeps in r.lastError for the errno of the failed pipe write
WriteError(errno) == IF errno = EPIPE THEN StreamFailed ELSE Unexpected

\* ReceiveStream.Write(buf), up to its return or the write to the pipe
WriteCall ==
    /\ recvCall.pc = "idle"
    /\ recvTask.pc # "panic"
    /\ \E size \in WriteSizes :
       /\ recvCall.pos + size <= BeginRecordLen + MaxTail
       /\ LET ptr == recv.beginRecordPointer
              buf == [i \in 1..size |-> ByteAt(recvOpts.data, recvCall.pos + i)]
              remaining == Len(recv.beginRecord) - ptr
              brb == BeginRecordBytes(remaining, size)
              filled == [i \in 1..Len(recv.beginRecord) |->
                           IF i > ptr /\ i <= ptr + brb THEN buf[i - ptr]
                           ELSE recv.beginRecord[i]]
              complete == remaining > 0 /\ Len(recv.beginRecord) - (ptr + brb) = 0
              called == [recvCall EXCEPT !.pos = @ + size, !.size = size, !.op = "Write"]
          IN
          IF HasFailed(recv.lastError)
          THEN /\ recvCall' = [called EXCEPT !.ret = [n |-> 0, err |-> recv.lastError]]
               /\ UNCHANGED recv
          ELSE IF complete /\ recv.beginClosed
          THEN \* send on a closed channel
               /\ recvCall' = [called EXCEPT !.pc = "panic"]
               /\ recv' = [recv EXCEPT !.beginRecord = filled,
                                       !.beginRecordPointer = ptr + brb]
          ELSE /\ complete => Len(recv.beginRecordChan) < BeginChanCap
               /\ recv' = [recv EXCEPT !.beginRecord = filled,
                              !.beginRecordPointer = ptr + brb,
                              !.beginRecordChan = IF complete THEN Append(@, filled) ELSE @]
               /\ IF size - brb = 0
                  THEN recvCall' = [called EXCEPT !.ret = [n |-> size, err |-> Nil]]
                  ELSE recvCall' = [called EXCEPT !.pc = "pipe_write",
                                      !.pending = PipePart(buf, brb), !.off = brb, !.n = 0]
    /\ UNCHANGED <<recvPipe, recvTask, recvKern, recvOpts, outsideRecv>>

\* Write: r.w.Write(buf[beginRecordBytes:]) and the return
PipeWrite ==
    /\ recvCall.pc = "pipe_write"
    /\ recvTask.pc # "panic"
    /\ IF ~recvPipe.wOpen \/ ~recvPipe.rOpen
       THEN LET err == WriteError(IF recvPipe.wOpen THEN EPIPE ELSE ErrClosed) IN
            /\ recv' = [recv EXCEPT !.lastError = err]
            /\ recvCall' = [recvCall EXCEPT !.pc = "idle", !.pending = <<>>,
                              !.ret = [n |-> recvCall.n + recvCall.off, err |-> err]]
            /\ UNCHANGED recvPipe
       ELSE /\ Len(recvPipe.data) < PipeCap
            /\ LET k == Min(PipeCap - Len(recvPipe.data), Len(recvCall.pending))
                   done == k = Len(recvCall.pending)
               IN
               /\ recvPipe' = [recvPipe EXCEPT !.data = @ \o Take(recvCall.pending, k)]
               /\ recvCall' = [recvCall EXCEPT
                     !.pc = IF done THEN "idle" ELSE "pipe_write",
                     !.pending = Drop(@, k),
                     !.n = @ + k,
                     !.forwarded = @ \o Take(recvCall.pending, k),
                     !.ret = IF done THEN [n |-> recvCall.n + k + recvCall.off, err |-> Nil]
                             ELSE @]
            /\ UNCHANGED recv
    /\ UNCHANGED <<recvTask, recvKern, recvOpts, outsideRecv>>

\* WaitAndClose: r.beginRecordChan <- []byte{}; close(r.beginRecordChan)
WaitAndClose ==
    /\ recvCall.pc = "idle"
    /\ recvTask.pc # "panic"
    /\ IF recv.beginClosed
       THEN \* send on a closed channel
            /\ recvCall' = [recvCall EXCEPT !.pc = "panic", !.op = "WaitAndClose"]
            /\ UNCHANGED recv
       ELSE /\ Len(recv.beginRecordChan) < BeginChanCap
            /\ recv' = [recv EXCEPT !.beginRecordChan = Append(@, <<>>),
                                    !.beginClosed = TRUE]
            /\ recvCall' = [recvCall EXCEPT !.pc = "wac_wait", !.op = "WaitAndClose"]
    /\ UNCHANGED <<recvPipe, recvTask, recvKern, recvOpts, outsideRecv>>

\* WaitAndClose: err := <-r.errorChan; close(r.errorChan); r.w.Close(); return err
WaitAndCloseReturn ==
    /\ recvCall.pc = "wac_wait"
    /\ recvTask.pc # "panic"
    /\ recv.errorChan # <<>>
    /\ recv' = [recv EXCEPT !.errorChan = Tail(@), !.errorClosed = TRUE]
    /\ recvPipe' = [recvPipe EXCEPT !.wOpen = FALSE]
    /\ recvCall' = [recvCall EXCEPT !.pc = "idle", !.wacRet = Head(recv.errorChan),
                                    !.wacs = @ + 1]
    /\ UNCHANGED <<recvTask, recvKern, recvOpts, outsideRecv>>

\* if len(opts.BeginRecord) != 312
BeginRecordOK_Any(beginRecord) == TRUE
BeginRecordOK(beginRecord) == Len(beginRecord) = BeginRecordLen

\* the value the consumer sends for the result of the control call
RecvStatus(res) ==
    IF res.err # Nil THEN res.err
    ELSE IF res.flags # 0 THEN ReceiveErr
    ELSE Nil

\* consumer: opts.BeginRecord = <-stream.beginRecordChan and the length check
ConsumerBegin ==
    /\ recvTask.pc = "recv_begin"
    /\ recvCall.pc # "panic"
    /\ recv.beginRecordChan # <<>> \/ recv.beginClosed
    /\ LET b == IF recv.beginRecordChan # <<>> THEN Head(recv.beginRecordChan) ELSE <<>> IN
       /\ recv' = [recv EXCEPT !.beginRecordChan = IF @ # <<>> THEN Tail(@) ELSE @]
       /\ IF BeginRecordOK(b)
          THEN \* the control call is issued: how much of the stream the kernel
               \* reads and what it returns then depend on the stream and the pool
               /\ recvTask' = [recvTask EXCEPT !.pc = "ioctl", !.beginRecord = b,
                                               !.called = TRUE]
               /\ \E need \in 0..MaxTail, outcome \in RecvOutcomes :
                     recvKern' = [recvKern EXCEPT !.req = b, !.need = need,
                                                  !.outcome = outcome]
          ELSE /\ recvTask' = [recvTask EXCEPT !.pc = "send_status", !.beginRecord = b,
                                               !.status = NotEnoughData]
               /\ UNCHANGED recvKern
    /\ UNCHANGED <<recvPipe, recvCall, recvOpts, outsideRecv>>

\* the kernel, inside the control call, reads the next stream byte from the fd
KernelRead ==
    /\ recvTask.pc = "ioctl"
    /\ recvCall.pc # "panic"
    /\ Len(recvKern.got) < recvKern.need
    /\ recvPipe.data # <<>>
    /\ recvKern' = [recvKern EXCEPT !.got = Append(@, Head(recvPipe.data))]
    /\ recvPipe' = [recvPipe EXCEPT !.data = Tail(@)]
    /\ UNCHANGED <<recv, recvTask, recvCall, recvOpts, outsideRecv>>

\* err = NvlistIoctl(... ZFS_IOC_RECV_NEW ..., res, nil) returns, at the end of the
\* stream or (with an error) at the end of the pipe: on success the output list is
\* unmarshalled into res, and the consumer picks the status from err and res.ErrorFlags
KernelRecvReturn ==
    /\ recvTask.pc = "ioctl"
    /\ recvCall.pc # "panic"
    /\ \/ Len(recvKern.got) = recvKern.need
       \/ recvPipe.data = <<>> /\ ~recvPipe.wOpen
    /\ LET returned(res, decoded) ==
               /\ recvKern' = [recvKern EXCEPT !.res = res]
               /\ IF decoded.err = Panic
                  THEN \* the decoder panics in the consumer goroutine: nothing is sent
                       recvTask' = [recvTask EXCEPT !.pc = "panic"]
                  ELSE recvTask' =
                          [recvTask EXCEPT
                              !.pc = "send_status",
                              !.status = RecvStatus([err |-> IF res.err # Nil THEN res.err
                                                             ELSE decoded.err,
                                                     flags |-> ErrorFlags(decoded.v)])]
           answered(res) ==
               returned(res,
                        IF Unmarshals(res.err, TRUE)
                        THEN Unmarshal(RecvResponse(res, BeginRecordLen + Len(recvKern.got)),
                                       NewReceiveError)
                        ELSE [err |-> Nil, v |-> NewReceiveError])
       IN  answered(IF Len(recvKern.got) = recvKern.need THEN recvKern.outcome
                    ELSE [err |-> EINVAL, flags |-> 0, errors |-> <<>>])
    /\ UNCHANGED <<recv, recvPipe, recvCall, recvOpts, outsideRecv>>

\* consumer: stream.errorChan <- status
ConsumerSendStatus ==
    /\ recvTask.pc = "send_status"
    /\ recvCall.pc # "panic"
    /\ ~recv.errorClosed
    /\ Len(recv.errorChan) < ErrorChanCap
    /\ recv' = [recv EXCEPT !.errorChan = Append(@, recvTask.status)]
    /\ recvTask' = [recvTask EXCEPT !.pc = "close_r", !.sent = @ + 1]
    /\ UNCHANGED <<recvPipe, recvKern, recvCall, recvOpts, outsideRecv>>

\* consumer: defer r.Close()
ConsumerCloseR ==
    /\ recvTask.pc = "close_r"
    /\ recvCall.pc # "panic"
    /\ recvPipe' = [recvPipe EXCEPT !.rOpen = FALSE, !.data = <<>>]
    /\ recvTask' = [recvTask EXCEPT !.pc = "done"]
    /\ UNCHANGED <<recv, recvKern, recvCall, recvOpts, outsideRecv>>

RecvNext ==
    \/ ReceiveCall
    \/ WriteCall
    \/ PipeWrite
    \/ WaitAndClose
    \/ WaitAndCloseReturn
    \/ ConsumerBegin
    \/ KernelRead
    \/ KernelRecvReturn
    \/ ConsumerSendStatus
    \/ ConsumerCloseR

----------------------------------------------------------------------------
(* Specifications *)

\* no Send in progress
SendIdle ==
    /\ stream = [peekBuf |-> <<>>, errorChan |-> <<>>, lastError |-> Nil, isEOF |-> FALSE]
    /\ sendPipe = [data |-> <<>>, rOpen |-> FALSE, wOpen |-> FALSE]
    /\ sendTask = [pc |-> "idle", err |-> Nil]
    /\ sendKern = [seed |-> 0, plan |-> 0, status |-> Nil, written |-> 0]
    /\ sendCall = [pc |-> "start", buf |-> 0, ret |-> [n |-> 0, err |-> Nil],
                   out |-> <<>>, reader |-> FALSE, sawEOF |-> FALSE, recvs |-> 0]

\* no Receive in progress
RecvIdle ==
    /\ recv = [lastError |-> Nil, beginRecord |-> <<>>, beginRecordPointer |-> 0,
               beginRecordChan |-> <<>>, beginClosed |-> FALSE,
               errorChan |-> <<>>, errorClosed |-> FALSE]
    /\ recvPipe = [data |-> <<>>, rOpen |-> FALSE, wOpen |-> FALSE]
    /\ recvTask = [pc |-> "idle", beginRecord |-> <<>>, status |-> Nil,
                   called |-> FALSE, sent |-> 0]
    /\ recvKern = [need |-> 0, outcome |-> [err |-> Nil, flags |-> 0, errors |-> <<>>],
                   got |-> <<>>, req |-> <<>>,
                   res |-> [err |-> Nil, flags |-> 0, errors |-> <<>>]]
    /\ recvCall = [pc |-> "start", pos |-> 0, size |-> 0, pending |-> <<>>, off |-> 0,
                   n |-> 0, ret |-> [n |-> 0, err |-> Nil], op |-> "none",
                   wacRet |-> Nil, wacs |-> 0, forwarded |-> <<>>]
    /\ recvOpts = [len |-> 0, seed |-> 0, data |-> 0]

\* no NvlistIoctl call in progress
IoctlIdle ==
    /\ callerCmd = [cookie |-> 0]
    /\ nvCall = [pc |-> "idle", nameLen |-> 0, request |-> "nil", config |-> "nil",
                 sink |-> FALSE, dstSize |-> 0, cmdCopy |-> [cookie |-> 0],
                 given |-> [cookie |-> 0],
                 errno |-> Nil, outOK |-> TRUE, unmarshalled |-> FALSE, ret |-> Nil]
    /\ nvKern = <<>>

\* no Marshal or Unmarshal call made or to be made
CodecIdle ==
    /\ codecPc = "done"
    /\ goVal = Invalid
    /\ kernelList = <<>>
    /\ wire = <<>>
    /\ target = Invalid
    /\ calls = <<>>

\* no operation of the facade called or to be called
FacadeIdle ==
    /\ fsCaller = [op |-> "none", cursor |-> 0, over |-> TRUE, edits |-> 0, fresh |-> FALSE]
    /\ fsCall = NoCall
    /\ fsKern = [children |-> {}, issued |-> <<>>]
    /\ fsRets = <<>>

\* a Send, with nothing else in progress
SendStartState == SendInit /\ RecvIdle /\ IoctlIdle /\ CodecIdle /\ FacadeIdle

\* a Receive, with nothing else in progress
RecvStartState == RecvInit /\ SendIdle /\ IoctlIdle /\ CodecIdle /\ FacadeIdle

\* one NvlistIoctl call, with no stream in progress
IoctlStartState == IoctlInit /\ SendIdle /\ RecvIdle /\ CodecIdle /\ FacadeIdle

\* Marshal and Unmarshal calls on their own
CodecStartState == CodecInit /\ SendIdle /\ RecvIdle /\ IoctlIdle /\ FacadeIdle

FacadeStartState == FacadeInit /\ SendIdle /\ RecvIdle /\ IoctlIdle /\ CodecIdle

SpecSend == SendStartState /\ [][SendNext]_vars

SpecRecv == RecvStartState /\ [][RecvNext]_vars

SpecIoctl == IoctlStartState /\ [][IoctlNext]_vars

SpecCodec == CodecStartState /\ [][CodecNext]_vars

SpecFacade == FacadeStartState /\ [][FacadeNext]_vars

\* the dispatcher runs on the caller's goroutine and the kernel answers every control call
SpecIoctlFair == SpecIoctl /\ WF_vars(IoctlNext)

\* the kernel keeps writing, failing or returning while it can, and the producer
\* goroutine is scheduled; the caller is free never to call Read or Close again
SpecSendFair ==
    /\ SpecSend
    /\ WF_vars(KernelWrite \/ KernelWriteBroken \/ KernelReturn)
    /\ WF_vars(ProducerSendStatus)
    /\ WF_vars(ProducerCloseW)

----------------------------------------------------------------------------
(* Send: properties *)

\* every stream byte the kernel has written so far
SendWritten == StreamBytes(sendKern.seed, sendKern.written)
\* every byte the reader holds or has handed to the caller
SendTaken == sendCall.out \o stream.peekBuf

\* C1: Send returns a reader only after at least one stream byte was read from
\* the pipe; when end-of-pipe comes before any byte, Send returns no reader and
\* a non-nil error of its own, which is the kernel's final status whenever
\* that status is non-nil. Send fails in no other way than at that end-of-pipe
\* or, before any pipe, goroutine or control call exists, with the error of os.Pipe.
C1_SendFailFast ==
    /\ sendCall.reader => Len(SendTaken) >= 1
    /\ sendCall.pc = "failed" =>
          /\ ~sendCall.reader
          /\ Len(SendTaken) = 0
          /\ sendCall.ret.err # Nil
          /\ (sendTask.err # Nil => sendCall.ret.err = sendTask.err)
          /\ IF sendCall.sawEOF
             THEN sendCall.ret.err = FinalStatus(sendTask.err)
             ELSE /\ sendCall.ret.err = EMFILE
                  /\ sendTask.pc = "idle"
                  /\ sendKern.written = 0
                  /\ ~sendPipe.rOpen /\ ~sendPipe.wOpen

\* Send of a non-existent snapshot: the kernel fails before any byte, Send fails
C1_Witness ==
    /\ sendCall.pc = "failed"
    /\ sendKern.written = 0
    /\ sendCall.ret.err = ENOENT

\* C2: once a Read (or the peek) has returned the final status, it has observed
\* end-of-pipe, the status came off the status channel after the producer sent
\* it, and every byte the kernel wrote has already been returned to the caller.
C2_BytesBeforeStatus ==
    stream.isEOF =>
        /\ sendCall.sawEOF
        /\ sendCall.recvs = 1
        /\ sendTask.pc \in {"close_w", "done"}
        /\ sendCall.out = SendWritten
        /\ stream.peekBuf = <<>>

\* a send that fails after two bytes or more: all of them were read before the status
C2_Witness ==
    /\ stream.isEOF
    /\ Len(sendCall.out) >= 2
    /\ sendCall.ret.err = EIO

\* C3: the bytes returned by the Reads so far, followed by the bytes still
\* peeked and (while the reader is open) the bytes still in the pipe, are the
\* bytes the kernel wrote, in order; no Read returns more than its buffer holds.
C3_ReadsConcatenate ==
    /\ Len(SendTaken) <= sendKern.written
    /\ SendTaken = StreamBytes(sendKern.seed, Len(SendTaken))
    /\ sendPipe.rOpen => SendTaken \o sendPipe.data = SendWritten
    /\ sendCall.pc = "ready" => sendCall.ret.n <= sendCall.buf

\* the peeked byte and then a two-byte read from the pipe have been returned
C3_Witness ==
    /\ Len(sendCall.out) >= 3
    /\ sendCall.ret.n = 2
    /\ stream.peekBuf = <<>>

\* C4: a Read that observed end-of-pipe returns the kernel's final status when
\* that is non-nil and io.EOF when the control call succeeded, never plain
\* end-of-stream for a failed control call.
C4_FinalStatusAtEOF ==
    stream.isEOF =>
        /\ stream.lastError = (IF sendTask.err = Nil THEN EOF ELSE sendTask.err)
        /\ sendCall.ret = [n |-> 0, err |-> stream.lastError]

\* a successful send read to its end: the reader returns io.EOF
C4_Witness ==
    /\ stream.isEOF
    /\ sendCall.reader
    /\ sendTask.err = Nil
    /\ sendCall.ret.err = EOF

\* the statuses the producer has placed on the status channel so far
StatusesPlaced == Len(stream.errorChan) + sendCall.recvs

\* the caller has closed the reader Send returned
ReaderClosed == sendCall.reader /\ ~sendPipe.rOpen

\* C26: once the caller has closed the send reader, whether or not it read anything
\* and even if it never calls Read again, the producer terminates: the kernel call
\* returns, the producer's send of the final status never has to wait, exactly one
\* status is placed on the status channel, and the write end of the pipe is closed.
C26_ProducerTerminatesAfterClose ==
    /\ [](sendTask.pc = "send_status" => SendProceeds(stream.errorChan))
    /\ [](StatusesPlaced = IF sendTask.pc \in {"close_w", "done"} THEN 1 ELSE 0)
    /\ [](sendTask.pc = "done" => ~sendPipe.wOpen)
    /\ (ReaderClosed ~> sendTask.pc = "done")

\* the reader was closed while the kernel still had bytes to write, the caller never
\* read the status, and the producer has finished with the broken-pipe status queued
C26_Witness ==
    /\ ReaderClosed
    /\ sendTask.pc = "done"
    /\ sendTask.err = EPIPE
    /\ stream.errorChan = <<EPIPE>>
    /\ sendCall.recvs = 0
    /\ ~sendPipe.wOpen

\* C27: over the peek inside Send and every later Read the status channel is received
\* from at most once, and once a call has observed the end of the pipe every further
\* Read returns 0 bytes and the same final status at once: it takes nothing from the
\* pipe, does not wait on the channel, and leaves the stream's state as it is.
C27_StatusReceivedOnce ==
    /\ [](sendCall.recvs <= 1 /\ (stream.isEOF <=> sendCall.recvs = 1))
    /\ [][stream.isEOF =>
             /\ UNCHANGED <<stream, sendPipe.data>>
             /\ sendCall' # sendCall =>
                   /\ sendCall'.pc = sendCall.pc
                   /\ sendCall'.ret = [n |-> 0, err |-> stream.lastError]
                   /\ sendCall'.out = sendCall.out
                   /\ sendCall'.recvs = sendCall.recvs]_vars

\* a Read with an empty buffer made after the Read that met the end of the pipe and
\* received the kernel's failure: it returned 0 bytes and that failure again
C27_Witness ==
    /\ stream.isEOF
    /\ sendCall.pc = "ready"
    /\ sendCall.recvs = 1
    /\ stream.lastError = EIO
    /\ sendCall.buf = 0
    /\ sendCall.ret = [n |-> 0, err |-> EIO]
    /\ stream.errorChan = <<>>

----------------------------------------------------------------------------
(* Receive: properties *)

\* the caller's data from position 1
RecvData(n) == StreamBytes(recvOpts.data, n)

\* C5: the receive control call is not issued before the caller has handed
\* over all 312 begin-record bytes; until then (and until WaitAndClose) the
\* consumer task stays blocked on the begin-record channel.
C5_NoCallBeforeBeginRecord ==
    /\ recvTask.called =>
          /\ recv.beginRecordPointer = BeginRecordLen
          /\ recvCall.pos >= BeginRecordLen
          /\ Len(recvKern.req) = BeginRecordLen
    /\ (recvCall.pc \notin {"start", "rejected"} /\ ~recv.beginClosed
          /\ recvCall.pos < BeginRecordLen) => recvTask.pc = "recv_begin"

\* the control call is in progress right after the 312th byte was written
C5_Witness ==
    /\ recvTask.pc = "ioctl"
    /\ recvTask.called
    /\ recvCall.pos = BeginRecordLen
    /\ ~recv.beginClosed

\* C6: on a stream Receive returned for options without a begin-record, for every
\* split of the data into Writes the begin-record is the first 312 bytes written
\* (and so is the one in the request), the bytes forwarded to the pipe are the bytes
\* from position 313 on, in order, and a successful Write returns len(buf).
C6_BeginRecordSplit ==
    (recvOpts.len = 0 /\ recvCall.pc \notin {"start", "rejected"}) =>
        /\ recv.beginRecordPointer <= BeginRecordLen
        /\ Len(recv.beginRecord) = BeginRecordLen
        /\ Take(recv.beginRecord, recv.beginRecordPointer) = RecvData(recv.beginRecordPointer)
        /\ recvTask.called => recvKern.req = RecvData(BeginRecordLen)
        /\ recvCall.forwarded =
              [i \in 1..Len(recvCall.forwarded) |-> ByteAt(recvOpts.data, BeginRecordLen + i)]
        /\ (recvCall.pc = "idle" /\ recvCall.op = "Write" /\ recvCall.ret.err = Nil) =>
              /\ recvCall.ret.n = recvCall.size
              /\ recv.beginRecordPointer + Len(recvCall.forwarded) = recvCall.pos

\* a Write that straddles byte 312 has returned and the control call was issued
C6_Witness ==
    /\ recvOpts.len = 0
    /\ recvCall.pc = "idle"
    /\ recvCall.op = "Write"
    /\ recvCall.ret.err = Nil
    /\ recvCall.off > 1
    /\ recvCall.size > recvCall.off + 1
    /\ recvTask.called

\* C7: with opts.BeginRecord set to 312 bytes, no written byte goes into the
\* begin-record, the consumer issues the control call with the supplied
\* begin-record, and WaitAndClose returns the status of that call.
C7_SuppliedBeginRecordUsed ==
    (recvOpts.len = BeginRecordLen /\ recvCall.wacs >= 1) =>
        /\ recv.beginRecordPointer = 0
        /\ recvCall.forwarded = RecvData(Len(recvCall.forwarded))
        /\ recvTask.called
        /\ recvKern.req = OptsBeginRecord
        /\ recvCall.wacRet = RecvStatus(recvKern.res)

\* C8: WaitAndClose never waits for a status that can only be produced after
\* it closes the write end of the pipe: it is never waiting on the empty status
\* channel while the control call waits for stream bytes on the empty pipe
\* whose write end WaitAndClose itself still holds open.
C8_WaitAndCloseNotStuck ==
    ~ /\ recvCall.pc = "wac_wait"
      /\ recv.errorChan = <<>>
      /\ recvTask.pc = "ioctl"
      /\ Len(recvKern.got) < recvKern.need
      /\ recvPipe.data = <<>>
      /\ recvPipe.wOpen

\* C9: the consumer task sends exactly one value on the status channel on every
\* path, so no path of it ends in a panic before the send: the not-enough-data
\* error, without a control call, when the begin-record it received is not 312
\* bytes; else the error of the control call, or the ReceiveError when the call
\* succeeded with error flags, or nil.
C9_OneStatus ==
    /\ recvTask.pc # "panic"
    /\ recvTask.sent <= 1
    /\ recvTask.pc \in {"idle", "recv_begin", "ioctl", "send_status"} => recvTask.sent = 0
    /\ recv.errorChan # <<>> => recv.errorChan = <<recvTask.status>>
    /\ recvTask.pc \in {"close_r", "done"} =>
          /\ recvTask.sent = 1
          /\ IF Len(recvTask.beginRecord) # BeginRecordLen
             THEN recvTask.status = NotEnoughData /\ ~recvTask.called
             ELSE /\ recvTask.called
                  /\ recvTask.status =
                        (IF recvKern.res.err # Nil THEN recvKern.res.err
                         ELSE IF recvKern.res.flags # 0 THEN ReceiveErr ELSE Nil)

\* a step of the caller that is a call of Write
WriteCalled == recvCall.pc = "idle" /\ recvCall'.op = "Write" /\ recvCall' # recvCall

\* C10: a Write whose pipe write fails with broken pipe returns the
\* stream-failed error; from then on every Write returns 0 and that error, and
\* nothing more is written to the pipe or to the begin-record.
C10_StreamFailedLatches ==
    /\ [][(recvCall.pc = "pipe_write" /\ recvPipe.wOpen /\ ~recvPipe.rOpen /\ recvCall'.pc = "idle") =>
             /\ recv'.lastError = StreamFailed
             /\ recvCall'.ret = [n |-> recvCall.n + recvCall.off, err |-> StreamFailed]]_vars
    /\ [][recv.lastError = StreamFailed =>
             /\ recv'.lastError = StreamFailed
             /\ recv'.beginRecord = recv.beginRecord
             /\ recv'.beginRecordPointer = recv.beginRecordPointer
             /\ recvCall'.forwarded = recvCall.forwarded
             /\ Len(recvPipe'.data) <= Len(recvPipe.data)
             /\ WriteCalled =>
                   /\ recvCall'.pc = "idle"
                   /\ recvCall'.ret = [n |-> 0, err |-> StreamFailed]]_vars

\* after the Write that failed with broken pipe, another Write has returned 0 and the error
C10_Witness ==
    /\ recv.lastError = StreamFailed
    /\ recvCall.op = "Write"
    /\ recvCall.ret = [n |-> 0, err |-> StreamFailed]
    /\ recvCall.size > 0
    /\ recvCall.pos > recv.beginRecordPointer + Len(recvCall.forwarded) + recvCall.size

\* C28: whatever Write and WaitAndClose calls the caller makes on a ReceiveStream, a
\* send on the begin-record channel never has to wait (the channel holds two values
\* and at most two are sent) and nothing is sent on, or closes, a closed channel.
C28_BeginChanNeverBlocksOrPanics ==
    /\ recvCall.pc # "panic"
    /\ ~recv.beginClosed => Len(recv.beginRecordChan) < BeginChanCap
    /\ Len(recv.beginRecordChan) <= BeginChanCap

----------------------------------------------------------------------------
(* Properties of NvlistIoctl *)

\* number of control calls issued so far
Calls == Len(nvKern)
\* the kernel's answer to the last control call
LastErrno == nvKern[Calls].errno
\* the working copy as the n-th control call left it
AttemptRecord(n) ==
    IF nvKern[n].wrote THEN [cookie |-> KernelCookie(n)] ELSE nvCall.given

\* C11: when the kernel answers out-of-memory k times and then succeeds, the call
\* returns success after exactly k+1 control calls, the i-th with an output buffer
\* of 8 KiB * 8^(i-1), and the caller's record is the one of the successful attempt.
C11_RetryOnShortOutput ==
    /\ \A i \in 1..Calls : nvKern[i].dst = 8192 * 8^(i - 1)
    /\ (Calls > 0 /\ LastErrno = Nil) =>
          /\ \A i \in 1..(Calls - 1) : nvKern[i].errno = ENOMEM
          /\ nvCall.pc \in {"answered", "done"}
          /\ nvCall.pc = "done" =>
                /\ callerCmd = AttemptRecord(Calls)
                /\ (nvCall.outOK \/ ~nvCall.sink) => nvCall.ret = Nil

C11_Witness ==
    /\ nvCall.pc = "done" /\ nvCall.ret = Nil /\ nvCall.sink
    /\ Calls = 3 /\ LastErrno = Nil
    /\ nvKern[1].wrote /\ nvKern[2].wrote /\ nvKern[3].wrote
    /\ callerCmd.cookie = KernelCookie(3)

\* C12: the retry loop ends whatever the kernel answers; a call answered out-of-memory
\* whose buffer times 8 is past 16 MiB is the last one and the call fails with
\* buffer-too-large; no control call has an output buffer larger than 16 MiB.
C12_RetryCap ==
    /\ [](/\ \A i \in 1..Calls : nvKern[i].dst <= 16777216
          /\ (nvCall.pc = "done" /\ Calls > 0 /\ LastErrno = ENOMEM) =>
                /\ nvCall.ret = ErrBufferTooLarge
                /\ nvKern[Calls].dst * 8 > 16777216
          /\ (nvCall.pc = "done" /\ nvCall.ret = ErrBufferTooLarge) =>
                \A i \in 1..Calls : nvKern[i].errno = ENOMEM)
    /\ (nvCall.pc # "idle") ~> (nvCall.pc = "done")

C12_Witness ==
    /\ nvCall.pc = "done" /\ nvCall.ret = ErrBufferTooLarge
    /\ Calls = 4 /\ nvKern[4].dst = 4194304

\* C13: a call that fails leaves the caller's record as it was passed; what the
\* kernel wrote into the working copy during an attempt never reaches the caller's
\* record while the call runs, and a call that succeeds leaves in it the record of
\* its last attempt.
C13_FailingCallNoMutation ==
    /\ (nvCall.pc = "done" /\ nvCall.ret # Nil) => callerCmd = nvCall.given
    /\ nvCall.pc \notin {"idle", "done"} => callerCmd = nvCall.given
    /\ (nvCall.pc = "done" /\ nvCall.ret = Nil /\ Calls > 0 /\ LastErrno = Nil) =>
          callerCmd = AttemptRecord(Calls)

\* C14: a control call the kernel answers with an errno other than out-of-memory is
\* the last one (the only one when it is the first), the output buffer is not
\* unmarshalled, and the call returns that errno.
C14_ErrnoSurfaced ==
    \A i \in 1..Calls :
        nvKern[i].errno \notin {Nil, ENOMEM} =>
            /\ i = Calls
            /\ nvCall.pc \in {"answered", "done"}
            /\ ~nvCall.unmarshalled
            /\ nvCall.pc = "done" => nvCall.ret = nvKern[i].errno

C14_Witness ==
    /\ nvCall.pc = "done" /\ nvCall.ret = ENOENT /\ nvCall.sink
    /\ Calls = 1 /\ ~nvCall.unmarshalled

----------------------------------------------------------------------------
(* Properties of the nvlist codec *)

\* the kinds the schema gives a record field: scalars, strings, scalar arrays,
\* nested records and maps; a read-only field is never written, so a record that
\* has one is left out
RECURSIVE SchemaValue(_)
SchemaValue(x) ==
    CASE x.k \in IntKinds \cup {"float64", "bool", "string"} -> TRUE
      [] x.k = "slice" -> x.v.ek \in IntKinds \cup {"bool", "string"}
      [] x.k = "struct" ->
            \A j \in 1..Len(x.v) : x.v[j].opt # "ro" /\ SchemaValue(x.v[j].x)
      [] x.k \in {"map", "nilmap"} -> \A j \in 1..Len(x.v) : SchemaValue(x.v[j].x)
      [] OTHER -> FALSE

\* a value as a caller compares it: a nil map is an empty map
RECURSIVE Norm(_)
Norm(x) ==
    CASE x.k = "nilmap" -> V("map", <<>>)
      [] x.k = "struct" ->
            V("struct", [j \in 1..Len(x.v) |-> [x.v[j] EXCEPT !.x = Norm(x.v[j].x)]])
      [] x.k = "map" ->
            V("map", [j \in 1..Len(x.v) |-> [x.v[j] EXCEPT !.x = Norm(x.v[j].x)]])
      [] x.k = "slice" ->
            V("slice", [ek |-> x.v.ek, es |-> [j \in 1..Len(x.v.es) |-> Norm(x.v.es[j])]])
      [] OTHER -> x

\* C15: Marshal of a typed record whose fields use only kinds and names of the
\* schema succeeds, and Unmarshal of its buffer into a fresh record of the same
\* type succeeds and yields a record equal to the one marshalled.
C15_TypedRoundTrip ==
    \A i \in 1..Len(calls) :
        (calls[i].op = "Marshal" /\ calls[i].val.k = "struct" /\ SchemaValue(calls[i].val))
        => /\ calls[i].err = Nil
           /\ i < Len(calls) =>
                 /\ calls[i + 1].err = Nil
                 /\ Norm(calls[i + 1].out) = Norm(calls[i].val)

\* C16: a well-formed native list of the kernel decoded into a generic map is a
\* map Marshal accepts, and decoding what Marshal returns yields an equal map.
C16_GenericRoundTrip ==
    (/\ kernelList \in KernelLists
     /\ Len(calls) >= 1
     /\ calls[1].op = "Unmarshal" /\ calls[1].target.k \in {"iface", "map"}
     /\ calls[1].err = Nil)
    => /\ Len(calls) >= 2 => calls[2].err = Nil
       /\ Len(calls) >= 3 => calls[3].err = Nil /\ calls[3].out = calls[1].out

\* a value Marshal has a pair type for, at every depth
RECURSIVE Representable(_)
Representable(x) ==
    CASE x.k \in IntKinds \cup {"float64", "bool", "string", "nil"} -> TRUE
      [] x.k = "slice" ->
            \/ x.v.ek \in IntKinds \cup {"bool", "string"}
            \/ /\ x.v.ek \in {"map", "struct"}
               /\ \A j \in 1..Len(x.v.es) : Representable(x.v.es[j])
      [] x.k = "struct" -> \A j \in 1..Len(x.v) : Representable(x.v[j].x)
      [] x.k \in {"map", "nilmap"} -> \A j \in 1..Len(x.v) : Representable(x.v[j].x)
      [] x.k = "intmap" -> x.v = <<>>
      [] OTHER -> FALSE

\* the names of the pairs Marshal is to write for a value, at every depth
RECURSIVE NamesOf(_)
NamesOf(x) ==
    LET items == IF x.k = "struct" THEN StructItems(x.v) ELSE MapItems(x.v)
    IN  CASE x.k \in {"struct", "map", "nilmap"} ->
                UNION { {items[j].n} \cup NamesOf(items[j].x) : j \in 1..Len(items) }
          [] x.k = "slice" /\ x.v.ek \in {"map", "struct"} ->
                UNION { NamesOf(x.v.es[j]) : j \in 1..Len(x.v.es) }
          [] OTHER -> {}

\* the zero of a kind, as omit-empty understands it: empty string, zero number,
\* false, empty container, null reference; a record is never empty
ZeroOfItsKind(x) ==
    \/ x.k \in IntKinds /\ x.v = 0
    \/ x.k = "float64" /\ FloatIsZero(x.v)
    \/ x.k = "bool" /\ ~x.v
    \/ x.k \in {"string", "map", "nilmap"} /\ x.v = <<>>
    \/ x.k = "slice" /\ x.v.es = <<>>
    \/ x.k = "nil"

\* the fields of a record that are to appear in its list
Appears(f) ==
    /\ f.opt # "ro"
    /\ ~(f.opt = "omitempty" /\ ZeroOfItsKind(f.x))
    /\ ~(f.x.k = "bool" /\ ~f.x.v)
    /\ f.x.k # "nil"

\* the pairs Marshal wrote at a depth, in the order it wrote them
PairsAt(log, depth) == SelectSeq(log, LAMBDA e : e.depth = depth)

\* the name of a pair as the buffer holds it: the bytes after the 16 bytes of the
\* pair's header, up to the null byte
NameInBuffer(buf, e) ==
    IF e.start + nvlistHeaderSize + Len(e.name) + 1 > Len(buf) THEN <<>>
    ELSE UpToNull(SubSeq(buf, e.start + nvlistHeaderSize + 1,
                         e.start + nvlistHeaderSize + Len(e.name) + 1))

\* C17: the pairs of the list a successful Marshal returns for a record are the
\* fields that are not read-only, not omit-empty with the zero of their kind, not a
\* false boolean and not nil: one pair per such field, in declaration order, under
\* the field's on-wire name.
C17_EmittedFields ==
    \A i \in 1..Len(calls) :
        (calls[i].op = "Marshal" /\ calls[i].val.k = "struct" /\ calls[i].err = Nil)
        => LET fs == SelectSeq(calls[i].val.v, Appears)
               ps == PairsAt(calls[i].log, 0)
           IN  /\ Len(ps) = Len(fs)
               /\ \A j \in 1..Len(ps) :
                     NameInBuffer(calls[i].buf, ps[j])
                        = IF fs[j].name = <<>> THEN fs[j].go ELSE fs[j].name

\* the tags of the pairs of a kernel list, the nested ones included
RECURSIVE TagsOf(_)
TagsOf(ps) ==
    UNION { {ps[j].type}
            \cup UNION { TagsOf(ps[j].lists[l]) : l \in 1..Len(ps[j].lists) }
            : j \in 1..Len(ps) }

\* C18: Unmarshal of a buffer with a pair of negative size, of name length <= 0,
\* of element count < 0 or > 65535, of tag 0 or of a tag outside the table fails
\* with invalid-data, and of a buffer with an hrtime pair with unsupported-type,
\* whether it decodes into a generic map or into a typed record.
C18_MalformedRejected ==
    (kernelList \in MalformedLists /\ Len(calls) >= 1)
    => calls[1].err = IF T("typeHrtime") \in TagsOf(kernelList)
                      THEN ErrUnsupportedType
                      ELSE ErrInvalidData

\* a 32-bit header field of the pair at a 0-based offset of the buffer
FieldAt(buf, off) == DecodeInt(SubSeq(buf, off + 1, off + 4), TRUE, littleEndian)

\* C19: in a buffer Marshal returns, every pair's size field is a multiple of 8
\* and is the number of bytes from the pair's start to the end of its padded
\* payload, where the next pair of the list starts; the payload starts a multiple
\* of 8 after the pair's start; at every depth.
C19_PairAlignment ==
    \A i \in 1..Len(calls) :
        (calls[i].op = "Marshal" /\ calls[i].err = Nil)
        => LET log == calls[i].log
               buf == calls[i].buf
           IN  \A j \in 1..Len(log) :
                  /\ FieldAt(buf, log[j].start) % 8 = 0
                  /\ FieldAt(buf, log[j].start) = log[j].end - log[j].start
                  /\ log[j].end <= Len(buf)
                  /\ (log[j].payload - log[j].start) % 8 = 0
                  /\ log[j].payload <= log[j].end
                  /\ (/\ j < Len(log)
                      /\ FieldAt(buf, log[j].start + 12)
                            \notin {T("typeNvlist"), T("typeNvlistArray")})
                     => \/ log[j + 1].start = log[j].start + FieldAt(buf, log[j].start)
                        \/ /\ log[j + 1].depth < log[j].depth
                           /\ FieldAt(buf, log[j].end) = 0

\* a nested pair with a name and a payload that both needed padding was written
C19_Witness ==
    \E i \in 1..Len(calls) :
        /\ calls[i].op = "Marshal" /\ calls[i].err = Nil
        /\ \E j \in 1..Len(calls[i].log) :
              LET e == calls[i].log[j]
              IN  /\ e.depth >= 1
                  /\ e.start % 8 # 0
                  /\ (Len(e.name) + 1) % 8 # 0
                  /\ FieldAt(calls[i].buf, e.start + 12) = T("typeString")
                  /\ FieldAt(calls[i].buf, e.start) = e.end - e.start

\* the name of the j-th pair of the kernel's list is the on-wire name of no field
NoFieldFor(j, rec) ==
    \A f \in 1..Len(rec.v) : WireName(rec.v[f]) # NameAt(j)

\* C20: Unmarshal of a list into a typed record returns invalid-value when the
\* list has a pair whose name is the on-wire name of none of the record's fields.
C20_UnknownFieldRejected ==
    (/\ kernelList \in KernelLists
     /\ Len(calls) >= 1
     /\ calls[1].target.k = "struct"
     /\ \E j \in 1..Len(kernelList) : NoFieldFor(j, calls[1].target))
    => calls[1].err = ErrInvalidValue

\* a name Marshal is to refuse: one with a null byte, or one whose length with
\* its terminator an int16 cannot hold
BadName(n) == HasNull(n) \/ Len(n) + 1 > MaxInt16

\* the buffer holds the whole name of a pair and its terminator after the pair's header
NameWritten(buf, e) ==
    /\ e.start + nvlistHeaderSize + Len(e.name) + 1 <= Len(buf)
    /\ SubSeq(buf, e.start + nvlistHeaderSize + 1,
              e.start + nvlistHeaderSize + Len(e.name) + 1) = e.name \o <<0>>

\* C21: Marshal (of a value whose kinds all have a pair type) returns invalid-value
\* exactly when the name of some pair has a null byte or a length that with its
\* terminator exceeds 32767; and in a buffer it returns with success every pair
\* has its whole name, terminated.
C21_NameValidation ==
    \A i \in 1..Len(calls) :
        (calls[i].op = "Marshal" /\ Representable(calls[i].val))
        => /\ calls[i].err = ErrInvalidValue
                <=> \E n \in NamesOf(calls[i].val) : BadName(n)
           /\ calls[i].err = Nil
                => \A j \in 1..Len(calls[i].log) :
                       NameWritten(calls[i].buf, calls[i].log[j])

\* a value some part of which Marshal cannot represent: a kind without a pair
\* type, a map with keys that are not strings, a string with a null byte; looked
\* for in everything Marshal is to write, at every depth
RECURSIVE Offending(_)
Offending(x) ==
    LET items == IF x.k = "struct" THEN StructItems(x.v) ELSE MapItems(x.v)
    IN  CASE x.k \in IntKinds \cup {"float64", "bool", "nil"} -> FALSE
          [] x.k = "string" -> HasNull(x.v)
          [] x.k = "slice" ->
                CASE x.v.ek \in IntKinds \cup {"bool"} -> FALSE
                  [] x.v.ek = "string" -> \E j \in 1..Len(x.v.es) : HasNull(x.v.es[j].v)
                  [] x.v.ek \in {"map", "struct"} ->
                        \E j \in 1..Len(x.v.es) : Offending(x.v.es[j])
                  [] OTHER -> TRUE
          [] x.k \in {"struct", "map", "nilmap"} ->
                \E j \in 1..Len(items) : Offending(items[j].x)
          [] x.k = "intmap" -> x.v # <<>>
          [] OTHER -> TRUE

\* C23: Marshal returns an error whenever a value it is to write, at any depth,
\* is of a kind without a pair type, is a map with a key that is not a string or
\* is a string with a null byte.
C23_ErrorsSurface ==
    \A i \in 1..Len(calls) :
        (calls[i].op = "Marshal" /\ Offending(calls[i].val)) => calls[i].err # Nil

\* C29: whatever the bytes declare, Unmarshal into a generic map or a typed record
\* returns nil or an error: it does not panic, neither on an index outside the
\* buffer nor in storing a decoded value into the target.
C29_UnmarshalNeverPanics ==
    \A i \in 1..Len(calls) :
        (calls[i].op = "Unmarshal" /\ calls[i].target.k \in {"iface", "map", "struct"})
        => calls[i].err # Panic

\* the pairs of the outermost list of a native little-endian buffer, from the pair
\* at cur up to the first nested or ill-formed one: where each starts, where its
\* declared size ends it, where its value starts, its element count and its tag
RECURSIVE TopPairs(_, _)
TopPairs(buf, cur) ==
    LET size == FieldAt(buf, cur)
        nameSz == DecodeInt(SubSeq(buf, cur + 5, cur + 6), TRUE, littleEndian)
        pair == [start |-> cur, end |-> cur + size,
                 at |-> nvPairReader_skipToAlign(cur + 16 + nameSz, cur, EncodingNative),
                 elem |-> FieldAt(buf, cur + 8), type |-> FieldAt(buf, cur + 12)]
    IN  IF cur + 4 > Len(buf) THEN <<>>
        ELSE IF size < 16 \/ cur + 4 + size > Len(buf) THEN <<>>
        ELSE IF nameSz <= 0 \/ cur + 16 + nameSz > cur + size THEN <<>>
        ELSE IF pair.elem < 0 \/ pair.elem > 65535 THEN <<>>
        ELSE IF pair.type \in {T("typeNvlist"), T("typeNvlistArray")} THEN <<pair>>
        ELSE <<pair>> \o TopPairs(buf, cur + size)

\* C30: in decoding a pair, the reads through the pair reader stay inside the pair:
\* a value read that succeeds starts at or after the pair's start and consumes no
\* byte at or beyond pair start + declared size, and the list's cursor is at exactly
\* pair start + declared size when the next pair is read.
C30_PairReadsWithinPair ==
    \A i \in 1..Len(calls) :
        (calls[i].op = "Unmarshal" /\ calls[i].buf = KBuf(kernelList))
        => LET r == [nvlist |-> calls[i].buf, endianness |-> littleEndian,
                     encoding |-> EncodingNative]
               pairs == TopPairs(calls[i].buf, readNvHeader(calls[i].buf).cur)
           IN  \A j \in 1..Len(pairs) :
                  LET rd == PayloadRead(r, pairs[j].at, pairs[j].end, pairs[j].type,
                                        pairs[j].elem)
                      p == ReadPair(r, pairs[j].start, V("map", <<>>))
                  IN  /\ rd.err = Nil => pairs[j].start <= pairs[j].at /\ rd.cur <= pairs[j].end
                      /\ (/\ p.more
                          /\ pairs[j].type \notin {T("typeNvlist"), T("typeNvlistArray")})
                         => p.cur = pairs[j].end

----------------------------------------------------------------------------
(* Properties of the operations facade *)

\* the calls of DatasetListNext that returned, in order
Listed == SelectSeq(fsRets, LAMBDA r : r.op = "DatasetListNext")

\* the call that began the listing the i-th call that returned belongs to: the
\* last call of DatasetListNext with cursor 0 up to it
PassStart(i) ==
    CHOOSE j \in 1..i :
        /\ fsRets[j].op = "DatasetListNext" /\ fsRets[j].cursor = 0
        /\ \A k \in (j + 1)..i : ~(fsRets[k].op = "DatasetListNext" /\ fsRets[k].cursor = 0)

\* the calls of DatasetListNext among the j-th to the i-th call that returned
Pass(j, i) == SelectSeq(SubSeq(fsRets, j, i), LAMBDA r : r.op = "DatasetListNext")

\* the pool held the same datasets when each of the j-th to the i-th call returned
PoolUnchanged(j, i) == \A k \in j..i : fsRets[k].children = fsRets[i].children

\* the names of the datasets of a pool in the order the kernel lists them
RECURSIVE ChildrenOf(_, _)
ChildrenOf(children, i) ==
    IF i > MaxChildren THEN <<>>
    ELSE (IF i \in children THEN <<ChildName(i)>> ELSE <<>>) \o ChildrenOf(children, i + 1)

\* C22: a listing that starts with cursor 0 and hands each cursor returned to the
\* next call returns the children of the pool one after the other, no name twice,
\* and no-such-entry after the last (at once on an empty pool), as long as the
\* pool is not changed while it is listed; the cursor a call returns is the
\* cookie the kernel wrote during the control call that succeeded.
C22_ListingVisitsEachChildOnce ==
    \A i \in 1..Len(fsRets) :
        fsRets[i].op = "DatasetListNext" =>
        LET r == fsRets[i]
            pass == Pass(PassStart(i), i)
            n == Len(pass)
            children == ChildrenOf(r.children, 1)
        IN  /\ r.cursor = IF n = 1 THEN 0 ELSE pass[n - 1].num
            /\ r.err = Nil =>
                  /\ r.num = fsKern.issued[r.issued].wrote.cookie
                  /\ fsKern.issued[r.issued].errno = Nil
            /\ PoolUnchanged(PassStart(i), i) =>
                  /\ r.err = Nil =>
                        /\ n <= Len(children)
                        /\ r.str = children[n]
                        /\ \A j \in 1..(n - 1) : pass[j].str # r.str
                  /\ r.err = ESRCH => n = Len(children) + 1
                  /\ (n = Len(children) + 1 /\ NameFits(Len(r.name), NameFieldLen))
                        => r.err = ESRCH

\* the listing of an empty pool ended at once with no-such-entry; two datasets
\* were created; the next listing returned both and then no-such-entry, the
\* second after an attempt during which the kernel moved the cookie and answered
\* out-of-memory
C22_Witness ==
    /\ Len(fsRets) = 6
    /\ fsRets[1].op = "DatasetListNext" /\ fsRets[1].err = ESRCH
    /\ fsRets[2].op = "Create" /\ fsRets[2].err = Nil
    /\ fsRets[3].op = "Create" /\ fsRets[3].err = Nil
    /\ fsRets[4].op = "DatasetListNext" /\ fsRets[4].err = Nil
    /\ fsRets[5].op = "DatasetListNext" /\ fsRets[5].err = Nil
    /\ fsRets[5].str = ChildName(2)
    /\ fsRets[6].op = "DatasetListNext" /\ fsRets[6].err = ESRCH
    /\ \E k \in 1..Len(fsKern.issued) :
          /\ fsKern.issued[k].errno = ENOMEM
          /\ fsKern.issued[k].cmd.cookie = fsRets[4].num
          /\ fsKern.issued[k].wrote.cookie # fsKern.issued[k].cmd.cookie

\* C24: when the control call of Rollback succeeds and the kernel's response holds
\* target = s, Rollback returns s as actualTarget.
C24_RollbackReturnsTarget ==
    \A i \in 1..Len(fsRets) :
        (/\ fsRets[i].op = "Rollback"
         /\ fsRets[i].issued > 0
         /\ fsKern.issued[fsRets[i].issued].errno = Nil)
        => fsRets[i].str = fsKern.issued[fsRets[i].issued].target

\* the arguments of an operation pass the client-side validation: the name fits
\* the record's name field, the secondary name fits the value field and has no
\* null byte
ValidNames(op, name, arg) ==
    /\ Len(name) <= NameFieldLen - 1
    /\ op \in ValueOps => Len(arg) <= ValueFieldLen - 1 /\ ~HasNull(arg)

\* C25: no control call is issued for an operation whose names fail the
\* client-side validation, and the operation returns an error.
C25_NoCallWithInvalidName ==
    /\ \A k \in 1..Len(fsKern.issued) :
          ValidNames(fsKern.issued[k].op, fsKern.issued[k].name, fsKern.issued[k].arg)
    /\ \A i \in 1..Len(fsRets) :
          ~ValidNames(fsRets[i].op, fsRets[i].name, fsRets[i].arg) => fsRets[i].err # Nil

====
